---------------------------- MODULE Spec2Model ----------------------------
(***************************************************************************)
(* A model of the repository synchronization engine of                     *)
(* smart_repository_manager_core: SyncService (services/sync_service.py),  *)
(* GitStatusChecker.needs_update (core/git_status.py) and the clone/pull   *)
(* command executors (core/git_operations.py, services/git_service.py).    *)
(*                                                                         *)
(* The local file system is modelled per repository name as a record of    *)
(* what the probes of the code can observe: whether the path exists,       *)
(* whether it holds a .git entry, the exit status of the four git probes   *)
(* and the commit the local HEAD points at.  External commands (git clone, *)
(* git pull, git fetch, git reset, git ls-remote) are nondeterministic:    *)
(* every action draws their outcome with \E.                               *)
(***************************************************************************)
EXTENDS Integers, Sequences, FiniteSets, TLC

(***************************************************************************)
(* Bounds of the model.                                                    *)
(***************************************************************************)
MaxRetriesBound == 3   \* max_retries of a run over one repository
MaxListRetries == 1    \* max_retries of a run over several repositories
MaxPasses == 2         \* sync_user_repositories is called at most this often

(***************************************************************************)
(* Program constants.                                                      *)
(***************************************************************************)
FreshSeconds == 300        \* git_status.py:66
StaleSeconds == 86400      \* git_status.py:69
BackoffCap == 10           \* sync_service.py:313
ExceptionSleep == 2        \* sync_service.py:319
NumProbes == 4             \* sync_service.py:190-195, len(checks)

(***************************************************************************)
(* Inputs.  Commit 1 is an older commit, commit 2 is the head of every     *)
(* remote; the remote does not change during a run.  CommitTime gives the  *)
(* committer timestamp (seconds) of each commit.                           *)
(***************************************************************************)
\* the names of the repositories handed to a pass, in input order
RepoNames == <<"foo", "bar">>
NoCommit == "none"
OldCommit == "c1"
RemoteHead == "c2"
CommitTime == [c \in {OldCommit, RemoteHead} |-> IF c = OldCommit THEN 900 ELSE 1000]
None == [none |-> TRUE]
\* pushed_at, an ISO-8601 text: `clock` is the date and time it spells, in
\* seconds, `offset` its UTC offset (0 for "Z").  None when the catalog
\* gives no timestamp.
PushedAt(t) == [clock |-> t, offset |-> 0]
\* the instant t written with the UTC offset off
PushedAtOffset(t, off) == [clock |-> t + off, offset |-> off]
\* a text datetime.fromisoformat rejects
Malformed == [malformed |-> TRUE]
\* the instant a timestamp denotes
Instant(p) == p.clock - p.offset
PushedAtValues == {None, PushedAt(1000), PushedAt(1301), PushedAt(87401)}
\* the timestamps of the direct calls of needs_update: on both sides of the
\* two thresholds, written with "Z" and with an offset of +3 h and -5 h
PushedAtTexts ==
    {PushedAt(t) : t \in {500, 1000, 1200, 1201, 1300, 1301, 87300, 87301, 87400, 87401}}
    \cup {PushedAtOffset(t, off) : t \in {1000, 1301, 87401}, off \in {10800, 0 - 18000}}
    \cup {Malformed}
\* outcomes of `git ls-remote origin HEAD`: the remote answers with its head,
\* exits non-zero, prints nothing, or runs into the 10 s timeout
LsRemoteOutcomes == {"ok", "fail", "empty", "timeout"}
\* a repository record without clone address (None or "": `not repo.ssh_url`)
NoUrl == ""
\* the authenticated user, and an organisation the user is a member of
Owner == "octocat"
Organisation == "acme"
SshUrl(name) == "git@host:org/" \o name \o ".git"

(***************************************************************************)
(* Text helpers: str.lower() and the substring test `a in b`.              *)
(***************************************************************************)
LowerChar(c) ==
    CASE c = "A" -> "a" [] c = "B" -> "b" [] c = "C" -> "c" [] c = "D" -> "d"
      [] c = "E" -> "e" [] c = "F" -> "f" [] c = "G" -> "g" [] c = "H" -> "h"
      [] c = "I" -> "i" [] c = "J" -> "j" [] c = "K" -> "k" [] c = "L" -> "l"
      [] c = "M" -> "m" [] c = "N" -> "n" [] c = "O" -> "o" [] c = "P" -> "p"
      [] c = "Q" -> "q" [] c = "R" -> "r" [] c = "S" -> "s" [] c = "T" -> "t"
      [] c = "U" -> "u" [] c = "V" -> "v" [] c = "W" -> "w" [] c = "X" -> "x"
      [] c = "Y" -> "y" [] c = "Z" -> "z" [] OTHER -> c

RECURSIVE Lower(_)
Lower(s) ==
    IF Len(s) = 0 THEN ""
    ELSE LowerChar(SubSeq(s, 1, 1)) \o Lower(SubSeq(s, 2, Len(s)))

Contains(sub, s) ==
    \E k \in 1..(Len(s) - Len(sub) + 1) : SubSeq(s, k, k + Len(sub) - 1) = sub

(***************************************************************************)
(* The local path of one repository as the code can observe it.            *)
(***************************************************************************)
Disk(e, g, d, l, r, s, h) ==
    [exists |-> e, git |-> g, dirOk |-> d, logOk |-> l, remoteOk |-> r,
     statusOk |-> s, head |-> h]

Absent == Disk(FALSE, FALSE, FALSE, FALSE, FALSE, FALSE, NoCommit)
\* a directory without .git
Fragment == Disk(TRUE, FALSE, FALSE, FALSE, FALSE, FALSE, NoCommit)
\* what an interrupted git clone leaves: .git created, no commit checked out
PartialClone == Disk(TRUE, TRUE, TRUE, FALSE, TRUE, FALSE, NoCommit)
\* a complete clone of the remote
FreshCopy == Disk(TRUE, TRUE, TRUE, TRUE, TRUE, TRUE, RemoteHead)
\* a complete clone of a remote without commits
EmptyClone == Disk(TRUE, TRUE, TRUE, FALSE, TRUE, TRUE, NoCommit)

\* .git present but unreadable: every probe fails
Corrupt == Disk(TRUE, TRUE, FALSE, FALSE, FALSE, FALSE, NoCommit)
\* a working copy one commit behind whose index is unreadable
BadIndex == Disk(TRUE, TRUE, TRUE, TRUE, TRUE, FALSE, OldCommit)
\* a current working copy without remote configuration
NoRemote == Disk(TRUE, TRUE, TRUE, TRUE, FALSE, TRUE, RemoteHead)
\* only the git directory is readable
OneProbe == Disk(TRUE, TRUE, TRUE, FALSE, FALSE, FALSE, NoCommit)
\* a working copy with two failing probes
TwoDefects == Disk(TRUE, TRUE, TRUE, TRUE, FALSE, FALSE, OldCommit)
\* an intact working copy one commit behind the remote
StaleCopy == Disk(TRUE, TRUE, TRUE, TRUE, TRUE, TRUE, OldCommit)

\* The local states a pass can find at its start.
InitDisks ==
    {Absent, Fragment, Corrupt, OneProbe, EmptyClone, PartialClone, BadIndex,
     NoRemote, TwoDefects, StaleCopy, FreshCopy}

(***************************************************************************)
(* SyncService._verify_repository_health: rev-parse --git-dir and          *)
(* log --oneline -1 both exit 0.                                           *)
(***************************************************************************)
VerifyRepositoryHealth(d) == d.dirOk /\ d.logOk

\* SyncService._cleanup_repository: shutil.rmtree(path, ignore_errors=True)
CleanupRepository(d) == Absent

(***************************************************************************)
(* SyncService._check_repository_health.  `runs` is the outcome of the     *)
(* four probe commands, in the order of `checks`.                          *)
(***************************************************************************)
ProbeNames == <<"git_dir", "git_log", "git_remote", "git_status">>

ProbeRuns(d) ==
    {<<IF d.dirOk THEN "ok" ELSE "fail", IF d.logOk THEN "ok" ELSE "fail",
       IF d.remoteOk THEN "ok" ELSE "fail", IF d.statusOk THEN "ok" ELSE "fail">>}

RECURSIVE CountOk(_)
CountOk(runs) ==
    IF runs = <<>> THEN 0
    ELSE (IF Head(runs) = "ok" THEN 1 ELSE 0) + CountOk(Tail(runs))

\* a threshold of one half instead of 0.7
PartialThresholdHalf(passed) == passed * 10 >= NumProbes * 5

\* passed_checks >= len(checks) * 0.7, in tenths
PartialThreshold(passed) == passed * 10 >= NumProbes * 7

HealthStatus(passed) ==
    IF passed = NumProbes THEN "healthy"
    ELSE IF PartialThreshold(passed) THEN "partially_broken"
    ELSE "broken"

\* the outcomes of the four probe commands on a path with a .git entry: a
\* probe exits 0 or not as the path determines, or subprocess.run raises
\* (the 5 s timeout, an OSError)
ProbeOutcomes(d) ==
    {runs \in [1..NumProbes -> {"ok", "fail", "raises"}] :
        \E natural \in ProbeRuns(d) :
            \A k \in 1..NumProbes : runs[k] \in {natural[k], "raises"}}

\* the loop stops at the first probe that does not pass
RunProbesShortCircuit(runs) ==
    LET failing == {k \in 1..NumProbes : runs[k] # "ok"}
        last == IF failing = {} THEN NumProbes
                ELSE CHOOSE k \in failing : \A j \in failing : k <= j
    IN [k \in 1..last |-> [name |-> ProbeNames[k], success |-> runs[k] = "ok"]]

\* lines 198-231: health_checks after the loop over the four probes
RunProbes(runs) ==
    [k \in 1..NumProbes |-> [name |-> ProbeNames[k], success |-> runs[k] = "ok"]]

\* lines 217-231: what a probe that did not pass appends to recommendations
ProbeRecommendation(check_name, run) ==
    IF run = "raises" THEN <<check_name \o " check failed">>
    ELSE IF check_name = "git_dir" THEN <<"Git directory corrupted">>
    ELSE IF check_name = "git_log" THEN <<"Cannot read git history">>
    ELSE IF check_name = "git_remote" THEN <<"Remote configuration missing">>
    ELSE <<>>

RECURSIVE ProbeRecommendations(_, _)
ProbeRecommendations(runs, k) ==
    IF k > Len(runs) THEN <<>>
    ELSE (IF runs[k] = "ok" THEN <<>>
          ELSE ProbeRecommendation(ProbeNames[k], runs[k]))
         \o ProbeRecommendations(runs, k + 1)

\* lines 233-242: the recommendation that goes with the status
StatusRecommendation(status) ==
    IF status = "healthy" THEN <<>>
    ELSE IF status = "partially_broken" THEN <<"Partially broken - may need repair">>
    ELSE <<"Broken - needs re-cloning">>

CheckRepositoryHealth(name, d, runs) ==
    IF ~d.exists THEN
        [name |-> name, exists |-> FALSE, is_git_repo |-> FALSE,
         health_checks |-> <<>>, status |-> "not_exists", needs_repair |-> TRUE,
         recommendations |-> <<"Repository does not exist - needs cloning">>]
    ELSE IF ~d.git THEN
        [name |-> name, exists |-> TRUE, is_git_repo |-> FALSE,
         health_checks |-> <<>>, status |-> "broken", needs_repair |-> TRUE,
         recommendations |-> <<"Not a git repository - needs re-cloning">>]
    ELSE
        LET passed == CountOk(runs) IN
        [name |-> name, exists |-> TRUE, is_git_repo |-> TRUE,
         health_checks |-> RunProbes(runs),
         status |-> HealthStatus(passed),
         needs_repair |-> HealthStatus(passed) # "healthy",
         recommendations |-> ProbeRecommendations(runs, 1)
                             \o StatusRecommendation(HealthStatus(passed))]

(***************************************************************************)
(* GitStatusChecker.get_local_commit_date and needs_update.  `ls` is the   *)
(* outcome of `git ls-remote origin HEAD`, one of LsRemoteOutcomes.        *)
(***************************************************************************)
\* a reader that answers with the epoch when no commit can be read
GetLocalCommitDateOrEpoch(d) ==
    IF d.dirOk /\ d.head # NoCommit /\ d.logOk THEN [date |-> CommitTime[d.head]]
    ELSE [date |-> 0]

GetLocalCommitDate(d) ==
    IF d.dirOk /\ d.head # NoCommit /\ d.logOk THEN [date |-> CommitTime[d.head]]
    ELSE None

\* line 54: fromisoformat raises on a text that is no ISO date (and
\* `.replace` on None); the except of line 107 turns that into True
ParsesAsDate(pushed_at) == pushed_at # None /\ pushed_at # Malformed

\* line 61: github_date.replace(tzinfo=timezone.utc) keeps the date and time
\* as written and relabels them as UTC
GithubDateUtc(pushed_at) == pushed_at.clock

NeedsUpdate(d, pushed_at, ls) ==
    IF ~d.exists \/ ~d.git THEN TRUE
    ELSE LET local_date == GetLocalCommitDate(d) IN
         IF local_date = None THEN TRUE
         ELSE IF ~ParsesAsDate(pushed_at) THEN TRUE
         ELSE LET diff_seconds == GithubDateUtc(pushed_at) - local_date.date IN
              IF diff_seconds <= FreshSeconds THEN FALSE
              ELSE IF diff_seconds > StaleSeconds THEN TRUE
              ELSE IF ls # "ok" THEN TRUE
              ELSE d.head # RemoteHead

\* whether needs_update reaches the ls-remote query
QueriesRemote(d, pushed_at) ==
    /\ d.exists /\ d.git /\ GetLocalCommitDate(d) # None
    /\ ParsesAsDate(pushed_at)
    /\ GithubDateUtc(pushed_at) - GetLocalCommitDate(d).date > FreshSeconds
    /\ GithubDateUtc(pushed_at) - GetLocalCommitDate(d).date <= StaleSeconds

(***************************************************************************)
(* SyncService._determine_smart_operation.  health_status is the record    *)
(* of the up-front health check, or None when the pass ran without one.    *)
(***************************************************************************)
\* a planner that re-clones a partially broken copy instead of repairing it
DetermineSmartOperationNoRepair(repo, d, requested_operation, health_status, ls) ==
    IF requested_operation = "clone" THEN "clone"
    ELSE IF requested_operation = "update" THEN "pull"
    ELSE LET hs == IF health_status = None
                   THEN CheckRepositoryHealth(repo.name, d, CHOOSE r \in ProbeRuns(d) : TRUE)
                   ELSE health_status
         IN IF hs.status \in {"broken", "not_exists", "partially_broken"} THEN "clone"
            ELSE IF ~d.exists \/ ~d.git THEN "clone"
            ELSE IF repo.pushed_at # None /\ NeedsUpdate(d, repo.pushed_at, ls) THEN "pull"
            ELSE "skip"

\* a planner that asks the staleness oracle whether or not the catalog gave
\* a timestamp
DetermineSmartOperationAlwaysAsks(repo, d, requested_operation, health_status, ls) ==
    IF requested_operation = "clone" THEN "clone"
    ELSE IF requested_operation = "update" THEN "pull"
    ELSE LET hs == IF health_status = None
                   THEN CheckRepositoryHealth(repo.name, d, CHOOSE r \in ProbeRuns(d) : TRUE)
                   ELSE health_status
         IN IF hs.status \in {"broken", "not_exists"} THEN "clone"
            ELSE IF hs.status = "partially_broken" THEN "repair"
            ELSE IF ~d.exists \/ ~d.git THEN "clone"
            ELSE IF NeedsUpdate(d, repo.pushed_at, ls) THEN "pull"
            ELSE "skip"

DetermineSmartOperation(repo, d, requested_operation, health_status, ls) ==
    IF requested_operation = "clone" THEN "clone"
    ELSE IF requested_operation = "update" THEN "pull"
    ELSE LET hs == IF health_status = None
                   THEN CheckRepositoryHealth(repo.name, d, CHOOSE r \in ProbeRuns(d) : TRUE)
                   ELSE health_status
         IN IF hs.status \in {"broken", "not_exists"} THEN "clone"
            ELSE IF hs.status = "partially_broken" THEN "repair"
            ELSE IF ~d.exists \/ ~d.git THEN "clone"
            ELSE IF repo.pushed_at # None /\ NeedsUpdate(d, repo.pushed_at, ls) THEN "pull"
            ELSE "skip"

\* a planner that inspects the path before it looks at the intent
PlannerConsultsFirst(repo, d, requested_operation, health_status) ==
    IF health_status = None THEN {"health"} ELSE {}

\* lines 176-197: _check_repository_health starts its git probes only on a
\* path that exists and holds a .git entry
RunsProbes(d) == d.exists /\ d.git

\* The collaborators one call of _determine_smart_operation consults:
\* "health" is _check_repository_health (line 259), "oracle" is
\* GitStatusChecker.needs_update (line 271).
PlannerConsults(repo, d, requested_operation, health_status) ==
    IF requested_operation \in {"clone", "update"} THEN {}
    ELSE LET hs == IF health_status = None
                   THEN CheckRepositoryHealth(repo.name, d, CHOOSE r \in ProbeRuns(d) : TRUE)
                   ELSE health_status
         IN (IF health_status = None THEN {"health"} ELSE {})
            \cup (IF /\ hs.status \notin {"broken", "not_exists", "partially_broken"}
                      /\ d.exists /\ d.git
                      /\ repo.pushed_at # None
                   THEN {"oracle"} ELSE {})

\* whether that call starts an external git process
PlannerRunsGit(repo, d, requested_operation, health_status) ==
    LET consults == PlannerConsults(repo, d, requested_operation, health_status) IN
    \/ "health" \in consults /\ RunsProbes(d)
    \/ "oracle" \in consults

(***************************************************************************)
(* GitOperation._terminate_process.  The child was started with            *)
(* start_new_session=True, so it leads a process group of its own; after   *)
(* SIGTERM it either exits within the 5 s of process.wait or does not.     *)
(***************************************************************************)
GraceOutcomes == {"exits", "hangs"}

\* os.killpg(os.getpgid(pid), sig): sig sent to the process group of the child
KillPg(sig) == [signal |-> sig, to |-> "group"]

\* the group is killed at once
TerminateProcessKillFirst(term) == <<KillPg("SIGKILL")>>

\* lines 17-28: the signals sent, in order; term is how the child took SIGTERM
TerminateProcess(term) ==
    IF term = "exits" THEN <<KillPg("SIGTERM")>>
    ELSE <<KillPg("SIGTERM"), KillPg("SIGKILL")>>

\* lines 92-93 and 159-160: only the handler of TimeoutExpired terminates
SignalsOf(run) == IF run.rc = "timeout" THEN TerminateProcess(run.term) ELSE <<>>

(***************************************************************************)
(* GitCloneOperation.execute.  A run of `git clone` ends with exit code 0, *)
(* with a non-zero exit code, or is cut off by the timeout, or Popen       *)
(* raises before a process exists; `left` is what is left at the target    *)
(* path when the run is over.                                              *)
(***************************************************************************)
GitCloneRuns ==
    {[rc |-> "zero", left |-> FreshCopy, stderr |-> "Cloning into 'repo'...",
      term |-> "none"],
     [rc |-> "zero", left |-> EmptyClone,
      stderr |-> "warning: You appear to have cloned an empty repository.",
      term |-> "none"],
     [rc |-> "nonzero", left |-> Absent,
      stderr |-> "fatal: Could not read from remote repository.", term |-> "none"],
     [rc |-> "nonzero", left |-> PartialClone,
      stderr |-> "error: git clone died of signal 9", term |-> "none"],
     [rc |-> "exception", left |-> Absent,
      stderr |-> "[Errno 2] No such file or directory: 'git'", term |-> "none"]}
    \cup {[rc |-> "timeout", left |-> PartialClone, stderr |-> "", term |-> t] :
            t \in GraceOutcomes}

\* GitCommandResult
CommandResult(success, error, rc, timed_out, d) ==
    [success |-> success, error |-> error, return_code |-> rc,
     timed_out |-> timed_out, disk |-> d]

GitCloneFinish(run) ==
    IF run.rc = "timeout" THEN
        CommandResult(FALSE, "Clone timeout after 30 seconds", "zero", TRUE, Absent)
    ELSE IF run.rc = "exception" THEN
        CommandResult(FALSE, "Clone error: " \o run.stderr, "unset", FALSE,
                      CleanupRepository(run.left))
    ELSE IF run.rc = "zero" THEN
        IF VerifyRepositoryHealth(run.left)
        THEN CommandResult(TRUE, run.stderr, "zero", FALSE, run.left)
        ELSE CommandResult(FALSE, run.stderr, "zero", FALSE, Absent)
    ELSE CommandResult(FALSE, run.stderr, "nonzero", FALSE, run.left)

\* what was at the target stays there until the clone has succeeded
GitCloneOnKeeping(d, run) ==
    IF GitCloneFinish(run).success THEN GitCloneFinish(run)
    ELSE [GitCloneFinish(run) EXCEPT !.disk = d]

\* lines 64-65: whatever is at the target path d is removed before git clone
\* starts, so the result of a run does not depend on it
GitCloneOn(d, run) == GitCloneFinish(run)

GitCloneExecute(d) == {GitCloneOn(d, run) : run \in GitCloneRuns}

(***************************************************************************)
(* GitService.pull_repository and GitPullOperation.execute.                *)
(***************************************************************************)
GitPullRuns(d) ==
    (IF d.remoteOk /\ d.statusOk
     THEN {[rc |-> "zero", left |-> [d EXCEPT !.head = RemoteHead], stderr |-> "",
            term |-> "none"]}
     ELSE {})
    \cup
    {[rc |-> "nonzero", left |-> d,
      stderr |-> "fatal: Could not read from remote repository.", term |-> "none"]}
    \cup {[rc |-> "timeout", left |-> d, stderr |-> "", term |-> t] :
            t \in GraceOutcomes}

GitPullFinish(run) ==
    IF run.rc = "timeout" THEN
        CommandResult(FALSE, "Pull timeout after 30 seconds", "zero", TRUE, run.left)
    ELSE CommandResult(run.rc = "zero" /\ VerifyRepositoryHealth(run.left),
                       run.stderr, run.rc, FALSE, run.left)

PullRepository(d) ==
    IF ~d.exists \/ ~d.git
    THEN {CommandResult(FALSE, "Not a git repository", "zero", FALSE, d)}
    ELSE {GitPullFinish(run) : run \in GitPullRuns(d)}

OrElse(text, default) == IF text = "" THEN default ELSE text

(***************************************************************************)
(* SyncService._execute_clone, _execute_pull, _try_fix_repository and      *)
(* _execute_repair: the set of results (ok, message, disk afterwards).     *)
(* `cause` names the branch that produced a failure.                       *)
(***************************************************************************)
Outcome(ok, message, d, cause) ==
    [ok |-> ok, message |-> message, disk |-> d, cause |-> cause]

\* why a command result is a failure: the deadline passed, the command
\* exited non-zero, or it exited 0 and the copy failed the verification
FailureCause(r) ==
    IF r.timed_out THEN "timeout"
    ELSE IF r.return_code # "zero" THEN "exec_failed"
    ELSE "unhealthy"

ExecuteClone(d) ==
    {IF r.success THEN
        IF VerifyRepositoryHealth(r.disk)
        THEN Outcome(TRUE, "Cloned successfully", r.disk, "none")
        ELSE Outcome(FALSE, "Clone succeeded but repository is unhealthy",
                     CleanupRepository(r.disk), "unhealthy")
     ELSE Outcome(FALSE, OrElse(r.error, "Clone failed"), r.disk,
                  FailureCause(r))
     : r \in GitCloneExecute(d)}

ExecutePull(d) ==
    IF ~VerifyRepositoryHealth(d)
    THEN {Outcome(FALSE, "Repository is unhealthy, cannot pull", d, "unhealthy")}
    ELSE {IF r.success THEN
             IF VerifyRepositoryHealth(r.disk)
             THEN Outcome(TRUE, "Updated successfully", r.disk, "none")
             ELSE Outcome(FALSE, "Pull succeeded but repository became unhealthy",
                          r.disk, "unhealthy")
          ELSE Outcome(FALSE, OrElse(r.error, "Pull failed"), r.disk,
                       FailureCause(r))
          : r \in PullRepository(d)}

\* git fetch --all and git reset --hard origin/HEAD: exit codes are ignored,
\* a timeout of either raises and is caught as "Fix error".
FixRuns(d) ==
    {[fetch |-> f, reset |-> r] :
        f \in {"zero", "nonzero", "timeout"}, r \in {"zero", "nonzero"}}

AfterFix(d, run) ==
    IF run.reset = "zero" /\ d.dirOk /\ d.remoteOk
       /\ (run.fetch = "zero" \/ d.head # NoCommit)
    THEN [d EXCEPT !.head = IF run.fetch = "zero" THEN RemoteHead ELSE d.head,
                   !.logOk = TRUE, !.statusOk = TRUE]
    ELSE d

TryFixRepository(d) ==
    IF ~d.exists THEN {Outcome(FALSE, "Repository does not exist", d, "not_exists")}
    ELSE IF ~d.git THEN {Outcome(FALSE, "Not a git repository", d, "not_a_repository")}
    ELSE {IF run.fetch = "timeout"
          THEN Outcome(FALSE, "Fix error: Command timed out after 10 seconds", d,
                       "timeout")
          ELSE IF VerifyRepositoryHealth(AfterFix(d, run))
          THEN Outcome(TRUE, "Fixed with fetch and reset", AfterFix(d, run), "none")
          ELSE Outcome(FALSE, "Fix attempted but repository still unhealthy",
                       AfterFix(d, run), "unhealthy")
          : run \in FixRuns(d)}

RecloneAfterFix(d) ==
    {IF r.success THEN
        IF VerifyRepositoryHealth(r.disk)
        THEN Outcome(TRUE, "Re-cloned successfully", r.disk, "none")
        ELSE Outcome(FALSE, "Re-cloned but repository is still unhealthy",
                     CleanupRepository(r.disk), "unhealthy")
     ELSE Outcome(FALSE, "Re-clone failed: " \o r.error, r.disk,
                  FailureCause(r))
     : r \in GitCloneExecute(CleanupRepository(d))}

ExecuteRepair(d) ==
    UNION {IF fix.ok
           THEN {Outcome(TRUE, "Fixed: " \o fix.message, fix.disk, "none")}
           ELSE RecloneAfterFix(fix.disk)
           : fix \in TryFixRepository(d)}

(***************************************************************************)
(* State.                                                                  *)
(***************************************************************************)
VARIABLES
    repositories,    \* the caller's list of Repository objects
    disk,            \* name -> local path state under repos_path
    operation,       \* sync_user_repositories argument: "sync", "clone", "update"
    auto_repair,     \* sync_user_repositories argument
    health_check,    \* sync_user_repositories argument
    max_retries,     \* SyncService.max_retries
    pc,              \* position of the control flow
    pass,            \* number of the current call of sync_user_repositories
    idx,             \* index of the loop over repositories (1-based)
    health_results,  \* name -> record of the up-front health check
    result,          \* the SyncResult of the current pass
    operation_type,  \* the planned operation of the current repository
    attempt,         \* loop variable of _execute_with_retries
    last_error,      \* local of _execute_with_retries
    wait_time,       \* the last time.sleep of the current call (0: none yet)
    ret,             \* (success, message, attempts) of _execute_with_retries
    call,            \* bookkeeping of the current _execute_with_retries call
    ls_remote,       \* whether the ls-remote query of the last planning gave
                     \* the remote head: "ok", "fail", or "none" when
                     \* needs_update did not query the remote
    fresh_start,     \* when the pass began every repository was marked synced
                     \* and its local copy was a current clone
    procs,           \* the repositories for whose local path or remote an
                     \* external process was started during the current pass
    unit,            \* a direct call of one component function: its
                     \* arguments and what it returned
    callbacks,       \* SyncService._callbacks: event name -> list of observers
    invoked,         \* the observer calls _emit made during the current pass
    cancel_requested \* the caller asked for the pass to be cancelled

vars == <<repositories, disk, operation, auto_repair, health_check, max_retries,
          pc, pass, idx, health_results, result, operation_type, attempt,
          last_error, wait_time, ret, call, ls_remote, fresh_start, procs, unit,
          callbacks, invoked, cancel_requested>>

\* the state of a pass of sync_user_repositories
pass_vars == <<pc, pass, idx, health_results, result, operation_type, attempt,
               last_error, wait_time, ret, call, ls_remote, fresh_start, procs,
               invoked, cancel_requested>>


EmptyMap == <<>>
Put(m, k, v) == [n \in DOMAIN m \cup {k} |-> IF n = k THEN v ELSE m[n]]

(***************************************************************************)
(* The event bus: SyncService._callbacks, register_callback and _emit.     *)
(* An observer is a callable; what the model keeps of it is its identity   *)
(* and whether it raises when called.  `invoked` lists the calls _emit     *)
(* made: n numbers the _emit calls of the pass, k is the position in the   *)
(* input list of the repository the event is about (0 for the events of    *)
(* the pass itself), args are the arguments handed to the observer.        *)
(***************************************************************************)
EventNames ==
    {"sync_started", "sync_finished", "health_check_started", "health_checked",
     "health_check_completed", "repo_started", "repo_skipped", "repo_completed",
     "repo_repaired", "repo_failed", "operation_attempt", "auto_repair_triggered",
     "repair_started", "repair_fixed", "repair_recloning", "repair_success",
     "repair_failed"}

Observer(id, raises) == [id |-> id, raises |-> raises]

\* SyncService.__init__, line 66
NoCallbacks == EmptyMap

\* register_callback, lines 68-71
RegisterCallback(cbs, event, callback) ==
    IF event \notin DOMAIN cbs
    THEN Put(cbs, event, <<callback>>)
    ELSE [cbs EXCEPT ![event] = Append(@, callback)]

Invocation(observer, n, event, k, args) ==
    [n |-> n, observer |-> observer.id, raised |-> observer.raises,
     event |-> event, k |-> k, args |-> args]

\* the loop gives up at the first observer that raises
InvokeUntilRaise(observers, n, event, k, args) ==
    LET raising == {i \in 1..Len(observers) : observers[i].raises}
        last == IF raising = {} THEN Len(observers)
                ELSE CHOOSE i \in raising : \A j \in raising : i <= j
    IN [i \in 1..last |-> Invocation(observers[i], n, event, k, args)]

\* _emit, lines 75-80: every observer of the list is called in list order;
\* an exception of an observer is caught and printed
InvokeAll(observers, n, event, k, args) ==
    [i \in 1..Len(observers) |-> Invocation(observers[i], n, event, k, args)]

EmitNumber(log) == IF Len(log) = 0 THEN 1 ELSE log[Len(log)].n + 1

\* _emit, lines 73-80: the log after self._emit(event, *args)
Emit(log, event, k, args) ==
    IF event \in DOMAIN callbacks
    THEN log \o InvokeAll(callbacks[event], EmitNumber(log), event, k, args)
    ELSE log

\* several _emit calls in a row for repository k
RECURSIVE EmitEach(_, _, _)
EmitEach(log, k, emits) ==
    IF emits = <<>> THEN log
    ELSE EmitEach(Emit(log, emits[1].event, k, emits[1].args), k, Tail(emits))

\* _execute_repair, lines 350-372: the events of a repair that returned o
RepairEvents(name, o) ==
    <<[event |-> "repair_started", args |-> <<name>>]>> \o
    (IF o.ok /\ o.message # "Re-cloned successfully"
     THEN <<[event |-> "repair_fixed",
             args |-> <<name, SubSeq(o.message, Len("Fixed: ") + 1, Len(o.message))>>]>>
     ELSE <<[event |-> "repair_recloning", args |-> <<name>>],
            IF o.ok
            THEN [event |-> "repair_success",
                  args |-> <<name, "Re-cloned successfully">>]
            ELSE IF o.cause = "unhealthy"
            THEN [event |-> "repair_failed",
                  args |-> <<name, "Re-cloned but unhealthy">>]
            ELSE [event |-> "repair_failed",
                  args |-> <<name, SubSeq(o.message, Len("Re-clone failed: ") + 1,
                                          Len(o.message))>>]>>)

\* the escalation announced when the repair is over
EscalationEventsLate(name, o) ==
    RepairEvents(name, o) \o <<[event |-> "auto_repair_triggered", args |-> <<name>>]>>

\* _execute_with_retries, lines 306-307: the events of a repair escalation
\* that returned o
EscalationEvents(name, o) ==
    <<[event |-> "auto_repair_triggered", args |-> <<name>>]>> \o RepairEvents(name, o)

\* SyncResult.__init__
NewSyncResult ==
    [successful |-> 0, failed |-> 0, skipped |-> 0, repaired |-> 0, total |-> 0,
     ended |-> FALSE,
     failed_repos |-> EmptyMap, repaired_repos |-> EmptyMap,
     skipped_repos |-> EmptyMap,
     health_stats |-> [s \in {"healthy", "partially_broken", "broken", "not_exists"}
                         |-> 0]]

NoUnitCall == [fn |-> "none"]
NoCall == [base |-> 0, escalations |-> 0, cause |-> "none", via |-> "none"]
NoRet == [success |-> FALSE, message |-> "", attempts |-> 0]

\* Repository dataclass: local_exists = False, need_update = True by default
Repository(name, url, pushed) ==
    [name |-> name, full_name |-> Owner \o "/" \o name, ssh_url |-> url,
     pushed_at |-> pushed, local_exists |-> FALSE, need_update |-> TRUE]

\* The repositories a pass can be given: every local state with a clone
\* address and a timestamp in the ambiguous band, every timestamp with an
\* intact working copy, and records without clone address.
RepoCases ==
    {[url |-> TRUE, pushed |-> PushedAt(1301), disk |-> d] : d \in InitDisks}
    \cup {[url |-> TRUE, pushed |-> p, disk |-> d] :
            p \in PushedAtValues, d \in {StaleCopy, FreshCopy}}
    \cup {[url |-> FALSE, pushed |-> PushedAt(1301), disk |-> d] :
            d \in {Absent, FreshCopy}}

\* The cases of the lists of several repositories: one per operation the
\* planner can choose, and one without clone address.
ListCases ==
    {[url |-> TRUE, pushed |-> PushedAt(1301), disk |-> Absent],
     [url |-> TRUE, pushed |-> PushedAt(1301), disk |-> BadIndex],
     [url |-> TRUE, pushed |-> PushedAt(87401), disk |-> StaleCopy],
     [url |-> TRUE, pushed |-> PushedAt(1301), disk |-> FreshCopy],
     [url |-> FALSE, pushed |-> PushedAt(1301), disk |-> Absent]}

\* The inputs of a run: a list of one repository in any case with max_retries
\* up to MaxRetriesBound, or the list RepoNames with max_retries up to
\* MaxListRetries.
InputLists ==
    {[cases |-> c, retries |-> m] :
        c \in [{1} -> RepoCases], m \in 0..MaxRetriesBound}
    \cup {[cases |-> c, retries |-> m] :
        c \in [DOMAIN RepoNames -> ListCases], m \in 0..MaxListRetries}

Init ==
    /\ \E input \in InputLists :
         /\ repositories =
              [k \in DOMAIN input.cases |->
                 Repository(RepoNames[k],
                            IF input.cases[k].url THEN SshUrl(RepoNames[k]) ELSE NoUrl,
                            input.cases[k].pushed)]
         /\ disk = [n \in {RepoNames[k] : k \in DOMAIN input.cases} |->
                      input.cases[CHOOSE k \in DOMAIN RepoNames : RepoNames[k] = n].disk]
         /\ max_retries = input.retries
    /\ operation \in {"sync", "clone", "update"}
    /\ auto_repair \in BOOLEAN
    /\ health_check \in BOOLEAN
    /\ pc = "idle"
    /\ pass = 0
    /\ idx = 1
    /\ health_results = EmptyMap
    /\ result = NewSyncResult
    /\ operation_type = "none"
    /\ attempt = 0
    /\ last_error = ""
    /\ wait_time = 0
    /\ ret = NoRet
    /\ call = NoCall
    /\ ls_remote = "none"
    /\ fresh_start = FALSE
    /\ procs = {}
    /\ unit = NoUnitCall
    /\ callbacks = NoCallbacks
    /\ invoked = <<>>
    /\ cancel_requested = FALSE

\* the list walked from its last element to its first
RepoAtReversed(repos, i) == repos[Len(repos) + 1 - i]

\* lines 109 and 116: the element the loops over repositories are at
RepoAt(repos, i) == repos[i]

(***************************************************************************)
(* sync_user_repositories, lines 90-114: create the SyncResult, bootstrap  *)
(* the directory structure, then (health_check) classify every repository. *)
(***************************************************************************)
\* the bootstrap failed and no repository is counted as failed
BootstrapFailedUncounted(total) ==
    [NewSyncResult EXCEPT !.total = total, !.ended = TRUE]

\* the bootstrap failure counted as one failed repository
BootstrapFailedOnce(total) ==
    [NewSyncResult EXCEPT !.total = total, !.failed = 1, !.ended = TRUE]

\* lines 97-101: the result returned when create_user_structure gave {}
BootstrapFailed(total) ==
    [NewSyncResult EXCEPT !.total = total, !.failed = total, !.ended = TRUE]

SyncStart ==
    /\ pc = "idle"
    /\ pass < MaxPasses
    /\ pass' = pass + 1
    /\ idx' = 1
    /\ health_results' = EmptyMap
    /\ fresh_start' = \A k \in DOMAIN repositories :
                          /\ repositories[k].ssh_url # NoUrl
                          /\ repositories[k].local_exists
                          /\ ~repositories[k].need_update
                          /\ disk[repositories[k].name] = FreshCopy
    /\ \E structure \in {"created", "failed"} :
         LET started == Emit(<<>>, "sync_started", 0,
                             <<Len(repositories), operation>>)
         IN IF structure = "failed"
            THEN /\ result' = BootstrapFailed(Len(repositories))
                 /\ pc' = "finished"
                 /\ invoked' = Emit(started, "sync_finished", 0,
                                    <<BootstrapFailed(Len(repositories))>>)
            ELSE /\ result' = [NewSyncResult EXCEPT !.total = Len(repositories)]
                 /\ pc' = IF health_check THEN "health" ELSE "loop"
                 /\ invoked' = IF health_check
                               THEN Emit(started, "health_check_started", 0, <<>>)
                               ELSE started
    /\ operation_type' = "none"
    /\ attempt' = 0
    /\ last_error' = ""
    /\ wait_time' = 0
    /\ ret' = NoRet
    /\ call' = NoCall
    /\ procs' = {}
    /\ UNCHANGED <<callbacks, cancel_requested, unit, ls_remote, repositories, disk, operation, auto_repair, health_check,
                   max_retries>>

\* the health-check loop ends after its first repository
HealthLoopDoneEarly(repos, i) == i > 1

\* line 109: the health-check loop has gone through the whole list
HealthLoopDone(repos, i) == i > Len(repos)

\* lines 109-113: one iteration of the health-check loop
HealthCheckRepo ==
    /\ pc = "health"
    /\ ~HealthLoopDone(repositories, idx)
    /\ LET repo == RepoAt(repositories, idx) IN
       \E runs \in ProbeRuns(disk[repo.name]) :
         LET health_status == CheckRepositoryHealth(repo.name, disk[repo.name], runs) IN
         /\ health_results' = Put(health_results, repo.name, health_status)
         /\ result' = [result EXCEPT !.health_stats[health_status.status] = @ + 1]
         /\ invoked' = Emit(invoked, "health_checked", idx,
                            <<repo.name, health_status.status>>)
    /\ idx' = idx + 1
    /\ procs' = IF RunsProbes(disk[RepoAt(repositories, idx).name])
               THEN procs \cup {RepoAt(repositories, idx).name} ELSE procs
    /\ UNCHANGED <<callbacks, cancel_requested, unit, ls_remote, fresh_start, repositories, disk, operation, auto_repair, health_check,
                   max_retries, pc, pass, operation_type, attempt, last_error,
                   wait_time, ret, call>>

\* lines 110 and 167-182: a path test of _check_repository_health raises
\* (Path.exists() re-raises an OSError other than "not found", such as
\* PermissionError); nothing between the test and the caller of
\* sync_user_repositories catches it
HealthCheckRaises ==
    /\ pc = "health"
    /\ ~HealthLoopDone(repositories, idx)
    /\ pc' = "raised"
    /\ UNCHANGED <<invoked, callbacks, cancel_requested, unit, procs, ls_remote,
                   fresh_start, repositories, disk, operation, auto_repair,
                   health_check, max_retries, pass, idx, health_results, result,
                   operation_type, attempt, last_error, wait_time, ret, call>>

\* line 114: the health-check loop is over
HealthCheckCompleted ==
    /\ pc = "health"
    /\ HealthLoopDone(repositories, idx)
    /\ pc' = "loop"
    /\ idx' = 1
    /\ invoked' = Emit(invoked, "health_check_completed", 0, <<result.health_stats>>)
    /\ UNCHANGED <<callbacks, cancel_requested, unit, procs, ls_remote, fresh_start, repositories, disk, operation, auto_repair, health_check,
                   max_retries, pass, health_results, result, operation_type,
                   attempt, last_error, wait_time, ret, call>>

(***************************************************************************)
(* lines 116-140: head of one iteration of the main loop: no clone address *)
(* -> failed; plan the operation; skip, or enter _execute_with_retries.    *)
(***************************************************************************)
RepoNoUrl ==
    /\ pc = "loop"
    /\ idx <= Len(repositories)
    /\ RepoAt(repositories, idx).ssh_url = NoUrl
    /\ result' = [result EXCEPT
                    !.failed = @ + 1,
                    !.failed_repos = Put(@, RepoAt(repositories, idx).name, "No SSH URL")]
    /\ invoked' = Emit(invoked, "repo_failed", idx,
                       <<RepoAt(repositories, idx).name, "No SSH URL">>)
    /\ idx' = idx + 1
    /\ UNCHANGED <<callbacks, cancel_requested, unit, procs, ls_remote, fresh_start, repositories, disk, operation, auto_repair, health_check,
                   max_retries, pc, pass, health_results, operation_type, attempt,
                   last_error, wait_time, ret, call>>

HealthStatusOf(name) ==
    IF health_check /\ name \in DOMAIN health_results
    THEN health_results[name] ELSE None

HealthOf(repo, d) ==
    IF HealthStatusOf(repo.name) = None
    THEN CheckRepositoryHealth(repo.name, d, CHOOSE r \in ProbeRuns(d) : TRUE)
    ELSE HealthStatusOf(repo.name)

RepoPlan ==
    /\ pc = "loop"
    /\ idx <= Len(repositories)
    /\ RepoAt(repositories, idx).ssh_url # NoUrl
    /\ LET repo == RepoAt(repositories, idx) IN
       \E ls \in LsRemoteOutcomes :
         LET planned == DetermineSmartOperation(repo, disk[repo.name], operation,
                                                HealthStatusOf(repo.name), ls)
             started == Emit(invoked, "repo_started", idx,
                             <<repo.name, idx - 1, result.total>>)
         IN /\ operation_type' = IF planned = "skip" THEN "none" ELSE planned
            /\ invoked' = IF planned = "skip"
                          THEN Emit(started, "repo_skipped", idx,
                                    <<repo.name, "Already up to date">>)
                          ELSE started
            /\ ls_remote' = IF operation = "sync"
                                /\ HealthOf(repo, disk[repo.name]).status = "healthy"
                                /\ repo.pushed_at # None
                                /\ QueriesRemote(disk[repo.name], repo.pushed_at)
                             THEN (IF ls = "ok" THEN "ok" ELSE "fail") ELSE "none"
            /\ IF planned = "skip"
               THEN /\ result' = [result EXCEPT
                                    !.skipped = @ + 1,
                                    !.skipped_repos =
                                        Put(@, repo.name, "Already up to date")]
                    /\ idx' = idx + 1
                    /\ pc' = "loop"
                    /\ attempt' = 0
               ELSE /\ result' = result
                    /\ idx' = idx
                    /\ pc' = "attempt"
                    /\ attempt' = 1
    /\ last_error' = ""
    /\ wait_time' = 0
    /\ ret' = NoRet
    /\ call' = NoCall
    /\ procs' = IF PlannerRunsGit(RepoAt(repositories, idx), disk[RepoAt(repositories, idx).name],
                                 operation, HealthStatusOf(RepoAt(repositories, idx).name))
               THEN procs \cup {RepoAt(repositories, idx).name} ELSE procs
    /\ UNCHANGED <<callbacks, cancel_requested, unit, fresh_start, repositories, disk, operation, auto_repair, health_check,
                   max_retries, pass, health_results>>

\* whether _determine_smart_operation tests the path itself (line 269) or
\* through _check_repository_health (line 259)
PlannerTestsPath(requested_operation, health_status) ==
    /\ requested_operation = "sync"
    /\ (IF health_status = None THEN TRUE ELSE health_status.status = "healthy")

\* lines 123-130: a path test of the planning raises; repo_started has been
\* emitted, and nothing catches the exception
PlanRaises ==
    /\ pc = "loop"
    /\ idx <= Len(repositories)
    /\ RepoAt(repositories, idx).ssh_url # NoUrl
    /\ PlannerTestsPath(operation, HealthStatusOf(RepoAt(repositories, idx).name))
    /\ invoked' = Emit(invoked, "repo_started", idx,
                       <<RepoAt(repositories, idx).name, idx - 1, result.total>>)
    /\ pc' = "raised"
    /\ UNCHANGED <<callbacks, cancel_requested, unit, procs, ls_remote,
                   fresh_start, repositories, disk, operation, auto_repair,
                   health_check, max_retries, pass, idx, health_results, result,
                   operation_type, attempt, last_error, wait_time, ret, call>>

(***************************************************************************)
(* _execute_with_retries, lines 287-321.                                   *)
(***************************************************************************)
ExecuteOperation(op, d) ==
    IF op = "clone" THEN ExecuteClone(d)
    ELSE IF op = "pull" THEN ExecutePull(d)
    ELSE ExecuteRepair(d)

\* the attempt counted from zero
ReturnOnSuccessZeroBased(message, n) ==
    [success |-> TRUE, message |-> message, attempts |-> n - 1]

\* lines 300-301: the value returned when the planned operation succeeds
ReturnOnSuccess(message, n) == [success |-> TRUE, message |-> message, attempts |-> n]

\* the failed attempt and the repair counted as two more
ReturnOnRepairPlusTwo(message, n) ==
    [success |-> TRUE, message |-> "Auto-repaired: " \o message, attempts |-> n + 2]

\* the repair not counted
ReturnOnRepairSameCount(message, n) ==
    [success |-> TRUE, message |-> "Auto-repaired: " \o message, attempts |-> n]

\* line 309: the value returned when the escalation succeeds
ReturnOnRepair(message, n) ==
    [success |-> TRUE, message |-> "Auto-repaired: " \o message, attempts |-> n + 1]

\* line 305: whether a failed attempt escalates to _execute_repair
Escalates(op, cause) == auto_repair /\ op # "repair"

\* lines 288-305: one attempt of the planned operation
Attempt ==
    /\ pc = "attempt"
    /\ attempt <= max_retries
    /\ LET name == RepoAt(repositories, idx).name IN
       \E o \in ExecuteOperation(operation_type, disk[name]) :
         /\ disk' = [disk EXCEPT ![name] = o.disk]
         /\ call' = [call EXCEPT !.base = @ + 1, !.cause = o.cause,
                                 !.via = IF o.ok THEN "planned" ELSE @]
         /\ invoked' =
              LET announced == Emit(invoked, "operation_attempt", idx,
                                    <<name, operation_type, attempt>>)
              IN IF operation_type = "repair"
                 THEN EmitEach(announced, idx, RepairEvents(name, o))
                 ELSE announced
         /\ IF o.ok
            THEN /\ ret' = ReturnOnSuccess(o.message, attempt)
                 /\ pc' = "fold"
                 /\ last_error' = last_error
            ELSE /\ ret' = ret
                 /\ last_error' = o.message
                 /\ pc' = IF Escalates(operation_type, o.cause)
                          THEN "escalate" ELSE "backoff"
    /\ procs' = procs \cup {RepoAt(repositories, idx).name}
    /\ UNCHANGED <<callbacks, cancel_requested, unit, ls_remote, fresh_start, repositories, operation, auto_repair, health_check, max_retries,
                   pass, idx, health_results, result, operation_type, attempt,
                   wait_time>>

\* lines 316-319: the attempt raises (an OSError of a path test outside the
\* callee's own try blocks); the handler sleeps 2 s unless it was the last
AttemptRaises ==
    /\ pc = "attempt"
    /\ attempt <= max_retries
    /\ last_error' = "Exception: [Errno 13] Permission denied"
    /\ call' = [call EXCEPT !.base = @ + 1, !.cause = "exception"]
    /\ wait_time' = IF attempt < max_retries THEN ExceptionSleep ELSE wait_time
    /\ attempt' = attempt + 1
    /\ invoked' =
         LET name == RepoAt(repositories, idx).name
             announced == Emit(invoked, "operation_attempt", idx,
                               <<name, operation_type, attempt>>)
         IN IF operation_type = "repair"
            THEN Emit(announced, "repair_started", idx, <<name>>)
            ELSE announced
    /\ UNCHANGED <<callbacks, cancel_requested, unit, procs, ls_remote, fresh_start, repositories, disk, operation, auto_repair, health_check,
                   max_retries, pc, pass, idx, health_results, result,
                   operation_type, ret>>

\* lines 305-310: the repair escalation after a failed attempt
Escalate ==
    /\ pc = "escalate"
    /\ LET name == RepoAt(repositories, idx).name IN
       \E o \in ExecuteRepair(disk[name]) :
         /\ disk' = [disk EXCEPT ![name] = o.disk]
         /\ call' = [call EXCEPT !.escalations = @ + 1,
                                 !.via = IF o.ok THEN "escalation" ELSE @]
         /\ invoked' = EmitEach(invoked, idx, EscalationEvents(name, o))
         /\ IF o.ok
            THEN /\ ret' = ReturnOnRepair(o.message, attempt)
                 /\ pc' = "fold"
                 /\ last_error' = last_error
            ELSE /\ ret' = ret
                 /\ last_error' = o.message
                 /\ pc' = "backoff"
    /\ procs' = procs \cup {RepoAt(repositories, idx).name}
    /\ UNCHANGED <<callbacks, cancel_requested, unit, ls_remote, fresh_start, repositories, operation, auto_repair, health_check, max_retries,
                   pass, idx, health_results, result, operation_type, attempt,
                   wait_time>>

RECURSIVE Pow2(_)
Pow2(n) == IF n = 0 THEN 1 ELSE 2 * Pow2(n - 1)

Min(a, b) == IF a < b THEN a ELSE b

\* line 313
WaitTime(n) == Min(Pow2(n), BackoffCap)

\* lines 312-314: sleep unless this was the last attempt, then loop
Backoff ==
    /\ pc = "backoff"
    /\ wait_time' = IF attempt < max_retries THEN WaitTime(attempt) ELSE wait_time
    /\ attempt' = attempt + 1
    /\ pc' = "attempt"
    /\ UNCHANGED <<invoked, callbacks, cancel_requested, unit, procs, ls_remote, fresh_start, repositories, disk, operation, auto_repair, health_check,
                   max_retries, pass, idx, health_results, result, operation_type,
                   last_error, ret, call>>

\* the error left out of the message
ReturnExhaustedNoReason(error) ==
    [success |-> FALSE,
     message |-> "Failed after " \o ToString(max_retries) \o " attempts",
     attempts |-> max_retries]

\* a service without retries reports one attempt
ReturnExhaustedClamped(error) ==
    LET n == IF max_retries < 1 THEN 1 ELSE max_retries IN
    [success |-> FALSE,
     message |-> "Failed after " \o ToString(n) \o " attempts: " \o error,
     attempts |-> n]

\* line 321: the value returned when the loop is exhausted
ReturnExhausted(error) ==
    [success |-> FALSE,
     message |-> "Failed after " \o ToString(max_retries) \o " attempts: " \o error,
     attempts |-> max_retries]

Exhausted ==
    /\ pc = "attempt"
    /\ attempt > max_retries
    /\ ret' = ReturnExhausted(last_error)
    /\ call' = [call EXCEPT !.via = "exhausted"]
    /\ pc' = "fold"
    /\ UNCHANGED <<invoked, callbacks, cancel_requested, unit, procs, ls_remote, fresh_start, repositories, disk, operation, auto_repair, health_check,
                   max_retries, pass, idx, health_results, result, operation_type,
                   attempt, last_error, wait_time>>

(***************************************************************************)
(* sync_user_repositories, lines 142-155: fold the outcome into the result *)
(***************************************************************************)
WithAttempts(message, n) == message \o " (attempts: " \o ToString(n) \o ")"

\* line 143
CountsAsRepaired(message) ==
    Contains("repaired", Lower(message)) \/ Contains("re-cloned", Lower(message))

\* the flags are written whatever the outcome
FlagsAfterAlways(repos, k, success) ==
    [repos EXCEPT ![k].need_update = FALSE, ![k].local_exists = TRUE]

\* lines 150-151: repo.need_update and repo.local_exists after the executor
\* returned for repository k
FlagsAfter(repos, k, success) ==
    IF success
    THEN [repos EXCEPT ![k].need_update = FALSE, ![k].local_exists = TRUE]
    ELSE repos

Fold ==
    /\ pc = "fold"
    /\ LET repo == RepoAt(repositories, idx) IN
       IF ret.success
       THEN /\ invoked' =
                 IF CountsAsRepaired(ret.message)
                 THEN Emit(invoked, "repo_repaired", idx,
                           <<repo.name, ret.message, ret.attempts>>)
                 ELSE Emit(invoked, "repo_completed", idx,
                           <<repo.name, TRUE, ret.message, ret.attempts>>)
            /\ result' =
                 IF CountsAsRepaired(ret.message)
                 THEN [result EXCEPT
                         !.repaired = @ + 1,
                         !.repaired_repos =
                             Put(@, repo.name, WithAttempts(ret.message, ret.attempts))]
                 ELSE [result EXCEPT !.successful = @ + 1]
            /\ repositories' = FlagsAfter(repositories, idx, TRUE)
       ELSE /\ result' = [result EXCEPT
                            !.failed = @ + 1,
                            !.failed_repos =
                                Put(@, repo.name, WithAttempts(ret.message, ret.attempts))]
            /\ repositories' = FlagsAfter(repositories, idx, FALSE)
            /\ invoked' = Emit(invoked, "repo_failed", idx,
                               <<repo.name, ret.message, ret.attempts>>)
    /\ idx' = idx + 1
    /\ pc' = "loop"
    /\ operation_type' = "none"
    /\ attempt' = 0
    /\ last_error' = ""
    /\ wait_time' = 0
    /\ ret' = NoRet
    /\ call' = NoCall
    /\ ls_remote' = "none"
    /\ UNCHANGED <<callbacks, cancel_requested, unit, procs, fresh_start, disk, operation, auto_repair, health_check,
                   max_retries, pass, health_results>>

\* lines 157-161: the loop is over
SyncFinish ==
    /\ pc = "loop"
    /\ idx > Len(repositories)
    /\ result' = [result EXCEPT !.ended = TRUE]
    /\ pc' = "finished"
    /\ invoked' = Emit(invoked, "sync_finished", 0, <<[result EXCEPT !.ended = TRUE]>>)
    /\ UNCHANGED <<callbacks, cancel_requested, unit, procs, ls_remote, fresh_start, repositories, disk, operation, auto_repair, health_check,
                   max_retries, pass, idx, health_results, operation_type, attempt,
                   last_error, wait_time, ret, call>>

\* the caller calls sync_user_repositories again with the same arguments
NextPass ==
    /\ pc = "finished"
    /\ pass < MaxPasses
    /\ pc' = "idle"
    /\ UNCHANGED <<invoked, callbacks, cancel_requested, unit, procs, ls_remote, fresh_start, repositories, disk, operation, auto_repair, health_check,
                   max_retries, pass, idx, health_results, result, operation_type,
                   attempt, last_error, wait_time, ret, call>>

Next ==
    \/ SyncStart
    \/ HealthCheckRepo
    \/ HealthCheckRaises
    \/ HealthCheckCompleted
    \/ RepoNoUrl
    \/ RepoPlan
    \/ PlanRaises
    \/ Attempt
    \/ AttemptRaises
    \/ Escalate
    \/ Backoff
    \/ Exhausted
    \/ Fold
    \/ SyncFinish
    \/ NextPass

Spec == Init /\ [][Next]_vars

(***************************************************************************)
(* An observed pass: the caller registered observers before calling        *)
(* sync_user_repositories once on a list of several repositories, and may  *)
(* ask for cancellation while the pass runs.  The list is what             *)
(* GitHubService.fetch_user_repositories can return: repositories the      *)
(* user owns, or of which the user is a collaborator or organisation       *)
(* member, made unique by id only, so two of them may bear the same name.  *)
(***************************************************************************)
Log == Observer("log", FALSE)
Faulty == Observer("faulty", TRUE)

\* register_callback(e, callback) for every e of events
RECURSIVE RegisterFor(_, _, _)
RegisterFor(cbs, events, callback) ==
    IF events = {} THEN cbs
    ELSE LET e == CHOOSE x \in events : TRUE
         IN RegisterFor(RegisterCallback(cbs, e, callback), events \ {e}, callback)

\* the registrations of the caller: an observer of every event, with a
\* raising observer registered before it for every event, or registered
\* after it for two of the events
Registries ==
    {RegisterFor(RegisterFor(NoCallbacks, EventNames, Faulty), EventNames, Log),
     RegisterFor(RegisterFor(NoCallbacks, EventNames, Log),
                 {"operation_attempt", "repo_failed"}, Faulty)}

\* the lists of an observed pass: two repositories of the user in any two
\* cases, or a repository of the user and an organisation's repository of
\* the same name, both in the same case
ObservedLists ==
    {[cases |-> c,
      names |-> <<[name |-> RepoNames[1], owner |-> Owner],
                  [name |-> RepoNames[2], owner |-> Owner]>>] :
        c \in [DOMAIN RepoNames -> ListCases]}
    \cup {[cases |-> [k \in DOMAIN RepoNames |-> c],
           names |-> <<[name |-> RepoNames[1], owner |-> Owner],
                       [name |-> RepoNames[1], owner |-> Organisation]>>] :
        c \in ListCases}

ObservedInit ==
    /\ \E input \in ObservedLists :
         LET cases == input.cases
             names == input.names
         IN
         /\ repositories =
              [k \in DOMAIN RepoNames |->
                 [Repository(names[k].name,
                             IF cases[k].url THEN SshUrl(names[k].name) ELSE NoUrl,
                             cases[k].pushed)
                  EXCEPT !.full_name = names[k].owner \o "/" \o names[k].name]]
         /\ disk = [n \in {names[k].name : k \in DOMAIN RepoNames} |->
                      cases[CHOOSE k \in DOMAIN RepoNames : names[k].name = n].disk]
    /\ max_retries \in 0..MaxListRetries
    /\ operation \in {"sync", "clone", "update"}
    /\ auto_repair \in BOOLEAN
    /\ health_check \in BOOLEAN
    /\ pc = "idle"
    /\ pass = 0
    /\ idx = 1
    /\ health_results = EmptyMap
    /\ result = NewSyncResult
    /\ operation_type = "none"
    /\ attempt = 0
    /\ last_error = ""
    /\ wait_time = 0
    /\ ret = NoRet
    /\ call = NoCall
    /\ ls_remote = "none"
    /\ fresh_start = FALSE
    /\ procs = {}
    /\ unit = NoUnitCall
    /\ callbacks \in Registries
    /\ invoked = <<>>
    /\ cancel_requested = FALSE

\* The caller asks for cancellation while an operation is in flight
\* (_execute_with_retries has been entered and has not returned).  SyncService has
\* no method or flag for that, and the GitOperation whose process runs is a
\* local of GitService.clone_repository / pull_repository, so the only
\* cancel() within the caller's reach is that of an operation object of its
\* own, which has no process: the request changes nothing the pass reads.
RequestCancel ==
    /\ pc \in {"attempt", "escalate", "backoff"}
    /\ ~cancel_requested
    /\ cancel_requested' = TRUE
    /\ UNCHANGED <<repositories, disk, operation, auto_repair, health_check,
                   max_retries, pc, pass, idx, health_results, result,
                   operation_type, attempt, last_error, wait_time, ret, call,
                   ls_remote, fresh_start, procs, unit, callbacks, invoked>>

\* the steps of the one thread that runs the pass
PassStep ==
    \/ SyncStart
    \/ HealthCheckRepo
    \/ HealthCheckRaises
    \/ HealthCheckCompleted
    \/ RepoNoUrl
    \/ RepoPlan
    \/ PlanRaises
    \/ Attempt
    \/ AttemptRaises
    \/ Escalate
    \/ Backoff
    \/ Exhausted
    \/ Fold
    \/ SyncFinish

ObservedNext ==
    \/ PassStep
    \/ RequestCancel

ObservedSpec == ObservedInit /\ [][ObservedNext]_vars

(***************************************************************************)
(* An observed pass over a single repository: the caller registered        *)
(* observers and calls sync_user_repositories once.  SyncService.__init__  *)
(* stores max_retries as given, so the run may have been constructed with  *)
(* zero or a negative number of retries.                                   *)
(***************************************************************************)
\* __init__, lines 61-66: max_retries is any integer, it is not validated
RetriesValues == (0 - 1)..MaxRetriesBound

SingleInit ==
    /\ \E c \in RepoCases :
         /\ repositories =
              <<Repository(RepoNames[1],
                           IF c.url THEN SshUrl(RepoNames[1]) ELSE NoUrl, c.pushed)>>
         /\ disk = [n \in {RepoNames[1]} |-> c.disk]
    /\ max_retries \in RetriesValues
    /\ operation \in {"sync", "clone", "update"}
    /\ auto_repair \in BOOLEAN
    /\ health_check \in BOOLEAN
    /\ pc = "idle"
    /\ pass = 0
    /\ idx = 1
    /\ health_results = EmptyMap
    /\ result = NewSyncResult
    /\ operation_type = "none"
    /\ attempt = 0
    /\ last_error = ""
    /\ wait_time = 0
    /\ ret = NoRet
    /\ call = NoCall
    /\ ls_remote = "none"
    /\ fresh_start = FALSE
    /\ procs = {}
    /\ unit = NoUnitCall
    /\ callbacks = RegisterFor(NoCallbacks, EventNames, Log)
    /\ invoked = <<>>
    /\ cancel_requested = FALSE

SingleNext == PassStep

SingleSpec == SingleInit /\ [][SingleNext]_vars

(***************************************************************************)
(* Direct calls of the component functions: one call of                    *)
(* GitStatusChecker.needs_update, of _determine_smart_operation or of      *)
(* GitCloneOperation.execute on one repository path, with arguments that   *)
(* need not come from a pass (a health_status that disagrees with the      *)
(* path, a timestamp text of any form).                                    *)
(***************************************************************************)
HealthStatuses == {"healthy", "partially_broken", "broken", "not_exists"}

\* the health_status argument: None or a dict with a "status"
HealthInputs == {None} \cup {[status |-> st] : st \in HealthStatuses}

UnitInit ==
    /\ \E d \in InitDisks, p \in PushedAtTexts \cup {None} :
         /\ repositories = <<Repository(RepoNames[1], SshUrl(RepoNames[1]), p)>>
         /\ disk = [n \in {RepoNames[1]} |-> d]
    /\ operation \in {"sync", "clone", "update"}
    /\ auto_repair = TRUE
    /\ health_check = FALSE
    /\ max_retries = MaxRetriesBound
    /\ pc = "idle"
    /\ pass = 0
    /\ idx = 1
    /\ health_results = EmptyMap
    /\ result = NewSyncResult
    /\ operation_type = "none"
    /\ attempt = 0
    /\ last_error = ""
    /\ wait_time = 0
    /\ ret = NoRet
    /\ call = NoCall
    /\ ls_remote = "none"
    /\ fresh_start = FALSE
    /\ procs = {}
    /\ unit = NoUnitCall
    /\ callbacks = NoCallbacks
    /\ invoked = <<>>
    /\ cancel_requested = FALSE

\* GitStatusChecker.needs_update(repo_path, repo.pushed_at)
NeedsUpdateCall ==
    /\ unit.fn = "none"
    /\ LET repo == repositories[1]
           d == disk[repo.name]
       IN \E ls \in LsRemoteOutcomes :
            unit' = [fn |-> "needs_update",
                     queried |-> QueriesRemote(d, repo.pushed_at),
                     ls |-> IF QueriesRemote(d, repo.pushed_at) THEN ls ELSE "none",
                     result |-> NeedsUpdate(d, repo.pushed_at, ls)]
    /\ UNCHANGED <<callbacks, repositories, disk, operation, auto_repair, health_check,
                   max_retries, pass_vars>>

\* self._determine_smart_operation(repo, repo_path, operation, health_status)
DetermineSmartOperationCall ==
    /\ unit.fn = "none"
    /\ LET repo == repositories[1]
           d == disk[repo.name]
       IN \E health_status \in HealthInputs, ls \in LsRemoteOutcomes :
            LET consults == PlannerConsults(repo, d, operation, health_status) IN
            unit' = [fn |-> "determine",
                     health_status |-> health_status,
                     consults |-> consults,
                     ls |-> IF "oracle" \in consults /\ QueriesRemote(d, repo.pushed_at)
                            THEN ls ELSE "none",
                     result |-> DetermineSmartOperation(repo, d, operation,
                                                        health_status, ls)]
    /\ UNCHANGED <<callbacks, repositories, disk, operation, auto_repair, health_check,
                   max_retries, pass_vars>>

\* self._check_repository_health(repo, repos_path)
CheckRepositoryHealthCall ==
    /\ unit.fn = "none"
    /\ LET repo == repositories[1]
           d == disk[repo.name]
       IN \E runs \in ProbeOutcomes(d) :
            unit' = [fn |-> "health",
                     runs |-> IF RunsProbes(d) THEN runs ELSE <<>>,
                     result |-> CheckRepositoryHealth(repo.name, d, runs)]
    /\ UNCHANGED <<callbacks, repositories, disk, operation, auto_repair, health_check,
                   max_retries, pass_vars>>

\* GitCloneOperation.execute(repo.ssh_url, repo_path)
GitCloneCall ==
    /\ unit.fn = "none"
    /\ LET name == repositories[1].name IN
       \E run \in GitCloneRuns :
         LET r == GitCloneOn(disk[name], run) IN
         /\ disk' = [disk EXCEPT ![name] = r.disk]
         /\ unit' = [fn |-> "clone", before |-> disk[name], result |-> r,
                     rc |-> run.rc, term |-> run.term, signals |-> SignalsOf(run)]
    /\ UNCHANGED <<callbacks, repositories, operation, auto_repair, health_check,
                   max_retries, pass_vars>>

\* GitPullOperation.execute(repo_path)
GitPullCall ==
    /\ unit.fn = "none"
    /\ LET name == repositories[1].name
           d == disk[name]
       IN IF ~d.exists \/ ~d.git
          THEN /\ unit' = [fn |-> "pull", before |-> d,
                           result |-> CommandResult(
                               FALSE,
                               IF ~d.exists THEN "Repository path does not exist"
                               ELSE "Not a git repository",
                               "zero", FALSE, d),
                           rc |-> "none", term |-> "none", signals |-> <<>>]
               /\ disk' = disk
          ELSE \E run \in GitPullRuns(d) :
                 LET r == GitPullFinish(run) IN
                 /\ disk' = [disk EXCEPT ![name] = r.disk]
                 /\ unit' = [fn |-> "pull", before |-> d, result |-> r,
                             rc |-> run.rc, term |-> run.term,
                             signals |-> SignalsOf(run)]
    /\ UNCHANGED <<callbacks, repositories, operation, auto_repair, health_check,
                   max_retries, pass_vars>>

UnitNext ==
    \/ NeedsUpdateCall
    \/ DetermineSmartOperationCall
    \/ CheckRepositoryHealthCall
    \/ GitCloneCall
    \/ GitPullCall

UnitSpec == UnitInit /\ [][UnitNext]_vars

(***************************************************************************)
(* Properties.                                                             *)
(***************************************************************************)
\* the repository the main loop is at
Cur == repositories[idx].name

InCall == pc \in {"attempt", "escalate", "backoff", "fold"}

PassCount(d) ==
    (IF d.dirOk THEN 1 ELSE 0) + (IF d.logOk THEN 1 ELSE 0)
    + (IF d.remoteOk THEN 1 ELSE 0) + (IF d.statusOk THEN 1 ELSE 0)

\* all four probes of the health check pass on d
FullyHealthy(d) == d.exists /\ d.git /\ PassCount(d) = NumProbes

\* the result of the current call came from a repair (planned or escalated)
CameFromRepair == operation_type = "repair" \/ call.via = "escalation"

\* C1: in every call of _execute_with_retries the planned operation is
\* attempted at most max_retries times, and the attempt count returned is
\* at most max_retries + 1.
C1_AttemptsBounded ==
    /\ call.base <= max_retries
    /\ pc = "fold" => ret.attempts <= max_retries + 1

C1_Witness ==
    /\ pc = "fold" /\ ret.success /\ max_retries >= 2
    /\ call.base = max_retries /\ ret.attempts = max_retries + 1

\* C2: within one call of _execute_with_retries the repair escalation is
\* attempted at most once, however many base attempts fail.
C2_EscalationOneShot == call.escalations <= 1

\* C3: a transient failure of the planned operation (timeout, failed
\* command) is only retried; the repair escalation is entered only after a
\* structural failure.
C3_TransientNeverEscalates ==
    pc = "escalate" => call.cause \notin {"timeout", "exec_failed"}

\* C4: whenever _execute_repair has returned failure, the target path is
\* absent or a fully healthy fresh copy.
C4_FailedRepairLeavesNoFragment ==
    (pc = "backoff" /\ (operation_type = "repair" \/ auto_repair))
        => disk[Cur] \in {Absent, FreshCopy}

\* C5: whenever repair reports success, the local copy is healthy in the
\* sense of _check_repository_health: all four probes pass.
C5_RepairedIsHealthy ==
    (pc = "fold" /\ ret.success /\ CameFromRepair) => FullyHealthy(disk[Cur])

\* C6: in a second pass under automatic intent over local copies that the
\* first pass left as current clones of an unchanged remote, every
\* repository is planned as Skip (no operation is started unless the query
\* of the remote head itself failed).
C6_SecondPassPlansSkip ==
    (fresh_start /\ pass >= 2 /\ operation = "sync" /\ pc = "attempt")
        => ls_remote = "fail"

\* C7: a successful outcome is counted as repaired exactly when the success
\* came from a repair or re-clone, and as successful otherwise.
C7_RepairedIffRepair ==
    [][(pc = "fold" /\ ret.success) =>
          /\ (result'.repaired = result.repaired + 1) <=> CameFromRepair
          /\ (result'.successful = result.successful + 1) <=> ~CameFromRepair]_vars

\* C8: under automatic intent a repository absent locally with a clone
\* address is planned as Clone (whenever the planner returns a plan); when
\* max_retries >= 3 and the clone succeeds
\* on its third attempt, the pass records successful += 1, the attempt count
\* is 3 and local_exists becomes true.
C8_CloneThirdAttempt ==
    [][/\ (/\ pc = "loop" /\ idx <= Len(repositories) /\ operation = "sync"
           /\ repositories[idx].ssh_url # NoUrl /\ ~disk[Cur].exists
           /\ pass' = pass /\ pc' # "raised")
          => operation_type' = "clone"
       /\ (/\ pc = "fold" /\ operation = "sync" /\ operation_type = "clone"
           /\ max_retries >= 3 /\ call.base = 3 /\ call.via = "planned")
          => /\ ret.success /\ ret.attempts = 3
             /\ result'.successful = result.successful + 1
             /\ result'.repaired = result.repaired
             /\ result'.failed = result.failed
             /\ repositories'[idx].local_exists
             /\ ~repositories'[idx].need_update]_vars

C8_Witness ==
    /\ pc = "fold" /\ operation = "sync" /\ operation_type = "clone"
    /\ max_retries >= 3 /\ call.base = 3 /\ call.via = "planned"
    /\ ret.message = "Cloned successfully"

\* C9: whenever a pass marks a repository as synced (the executor returned
\* success), the local copy is healthy and its head is the remote's head.
C9_SyncedIsCurrent ==
    (pc = "fold" /\ ret.success)
        => FullyHealthy(disk[Cur]) /\ disk[Cur].head = RemoteHead

\* the local path of repository k is as the health check of this pass saw it
Unprocessed(k) ==
    \/ pc = "health"
    \/ pc = "loop" /\ k >= idx
    \/ InCall /\ k > idx

\* C10: _check_repository_health returns not_exists iff the path is absent,
\* broken iff the path exists and has no .git or at most 2 of the 4 probes
\* pass, partially_broken iff exactly 3 pass, healthy iff all 4 pass.
C10_HealthClassification ==
    \A k \in DOMAIN repositories :
        LET n == repositories[k].name IN
        (n \in DOMAIN health_results /\ Unprocessed(k)) =>
            LET d == disk[n]
                h == health_results[n].status
                p == PassCount(d)
            IN /\ h = "not_exists" <=> ~d.exists
               /\ h = "broken" <=> (d.exists /\ (~d.git \/ p <= 2))
               /\ h = "partially_broken" <=> (d.exists /\ d.git /\ p = 3)
               /\ h = "healthy" <=> (d.exists /\ d.git /\ p = 4)

C10_Witness ==
    \E k \in DOMAIN repositories :
        LET n == repositories[k].name IN
        /\ n \in DOMAIN health_results /\ Unprocessed(k)
        /\ disk[n].git /\ PassCount(disk[n]) = 2
        /\ health_results[n].status = "broken"


(***************************************************************************)
(* Properties of the direct calls (UnitSpec).                              *)
(***************************************************************************)
\* the repository and the path of the direct call
UnitRepo == repositories[1]
UnitDisk == disk[UnitRepo.name]

\* the health state of a path: absent, no .git, or by the number of
\* passing probes
HealthOfPath(d) ==
    IF ~d.exists THEN "not_exists"
    ELSE IF ~d.git THEN "broken"
    ELSE IF PassCount(d) = NumProbes THEN "healthy"
    ELSE IF PassCount(d) * 10 >= NumProbes * 7 THEN "partially_broken"
    ELSE "broken"

\* a commit of the local copy can be read
LocalCommitReadable(d) ==
    d.exists /\ d.git /\ d.dirOk /\ d.logOk /\ d.head # NoCommit

\* pushed_at is a timestamp (neither null nor unparsable)
IsTimestamp(p) == p # None /\ p # Malformed

\* remotePushedAt - localCommitTimestamp, both as instants
TrueDiff(p, d) == Instant(p) - CommitTime[d.head]

\* the health state the planner of the direct call decides on
UnitHealth ==
    IF unit.health_status = None THEN HealthOfPath(UnitDisk)
    ELSE unit.health_status.status

\* the staleness oracle was asked and said stale
UnitOracleSaysStale ==
    /\ UnitRepo.pushed_at # None
    /\ NeedsUpdate(UnitDisk, UnitRepo.pushed_at, unit.ls)

\* C11: under automatic intent the planner returns Clone for not_exists or
\* broken, Repair for partially_broken, Clone for healthy with the path or
\* its .git missing, Pull for healthy and stale, Skip for healthy and not
\* stale; the first matching row wins.
C11_AutomaticPlan ==
    (unit.fn = "determine" /\ operation = "sync") =>
        unit.result =
            IF UnitHealth \in {"not_exists", "broken"} THEN "clone"
            ELSE IF UnitHealth = "partially_broken" THEN "repair"
            ELSE IF ~UnitDisk.exists \/ ~UnitDisk.git THEN "clone"
            ELSE IF UnitOracleSaysStale THEN "pull"
            ELSE "skip"

\* the contradiction row: health says healthy, the path is absent
C11_Witness ==
    /\ unit.fn = "determine" /\ operation = "sync"
    /\ unit.health_status # None /\ unit.health_status.status = "healthy"
    /\ ~UnitDisk.exists
    /\ unit.result = "clone"

\* C12: an explicit intent overrides inference: "clone" yields Clone and
\* "update" yields Pull for every health state and every timestamp, and
\* neither the health check nor the staleness oracle is consulted.
C12_ExplicitIntent ==
    (unit.fn = "determine" /\ operation \in {"clone", "update"}) =>
        /\ unit.result = (IF operation = "clone" THEN "clone" ELSE "pull")
        /\ unit.consults = {}

\* refresh of an absent path without a health_status
C12_Witness ==
    /\ unit.fn = "determine" /\ operation = "update"
    /\ unit.health_status = None /\ ~UnitDisk.exists
    /\ unit.result = "pull"

\* C13: needs_update returns false for every repository with a readable
\* local commit whose last-pushed timestamp is at most 300 s after the
\* local commit time.
C13_FreshWithinTolerance ==
    (/\ unit.fn = "needs_update"
     /\ LocalCommitReadable(UnitDisk)
     /\ IsTimestamp(UnitRepo.pushed_at)
     /\ TrueDiff(UnitRepo.pushed_at, UnitDisk) <= FreshSeconds)
        => ~unit.result

\* C14: needs_update returns true without a remote query for every
\* repository whose last-pushed timestamp is more than 86400 s ahead of the
\* local commit time, and issues no remote query in the <= 300 s case.
C14_StaleWithoutQuery ==
    (/\ unit.fn = "needs_update"
     /\ LocalCommitReadable(UnitDisk)
     /\ IsTimestamp(UnitRepo.pushed_at))
        => /\ TrueDiff(UnitRepo.pushed_at, UnitDisk) > StaleSeconds
                => (unit.result /\ ~unit.queried)
           /\ TrueDiff(UnitRepo.pushed_at, UnitDisk) <= FreshSeconds
                => ~unit.queried

\* C15: in the band 300 s < diff <= 86400 s needs_update queries the remote
\* head; it returns false iff the query succeeds and the remote head equals
\* the local head.
C15_AmbiguousBandCompares ==
    (/\ unit.fn = "needs_update"
     /\ LocalCommitReadable(UnitDisk)
     /\ IsTimestamp(UnitRepo.pushed_at)
     /\ TrueDiff(UnitRepo.pushed_at, UnitDisk) > FreshSeconds
     /\ TrueDiff(UnitRepo.pushed_at, UnitDisk) <= StaleSeconds)
        => /\ unit.queried
           /\ ~unit.result <=> (unit.ls = "ok" /\ UnitDisk.head = RemoteHead)

\* C16: needs_update returns true whenever no local commit can be read,
\* whenever the timestamp cannot be parsed and whenever the remote query
\* it issued fails; every call returns a boolean.
C16_ConservativeOnError ==
    unit.fn = "needs_update" =>
        /\ unit.result \in BOOLEAN
        /\ ~LocalCommitReadable(UnitDisk) => unit.result
        /\ ~IsTimestamp(UnitRepo.pushed_at) => unit.result
        /\ (unit.queried /\ unit.ls # "ok") => unit.result

\* an unparsable timestamp for an intact, current copy
C16_Witness ==
    /\ unit.fn = "needs_update"
    /\ UnitDisk = FreshCopy
    /\ UnitRepo.pushed_at = Malformed
    /\ unit.result


\* C17: after GitCloneOperation.execute returned success = false, for
\* whatever reason, the target path does not exist.
C17_FailedCloneRemovesTarget ==
    (unit.fn = "clone" /\ ~unit.result.success) => ~UnitDisk.exists

(***************************************************************************)
(* Properties of a pass (Spec), continued.                                 *)
(***************************************************************************)
\* the main loop of the current pass has dealt with repository k
Processed(k) == pc \notin {"idle", "health"} /\ k < idx

\* C18: for a repository without clone address no external process is
\* started during the pass, with or without the up-front health check, and
\* once the main loop has passed it, it is recorded with a reason under
\* failed_repos or skipped_repos.
C18_NoUrlNoProcess ==
    \A k \in DOMAIN repositories :
        repositories[k].ssh_url = NoUrl =>
            /\ repositories[k].name \notin procs
            /\ Processed(k) =>
                 repositories[k].name \in
                     DOMAIN result.failed_repos \cup DOMAIN result.skipped_repos

\* C19: need_update and local_exists of a repository are written only when
\* the executor returned success for it, and then become false and true;
\* every other step leaves the flags of every repository unchanged.
C19_FlagsWrittenOnSuccess ==
    [][/\ DOMAIN repositories' = DOMAIN repositories
       /\ \A k \in DOMAIN repositories :
            repositories'[k] # repositories[k] =>
                /\ pc = "fold" /\ ret.success /\ k = idx
                /\ repositories'[k] = [repositories[k] EXCEPT !.need_update = FALSE,
                                                                !.local_exists = TRUE]
       /\ (pc = "fold" /\ ret.success) =>
            /\ ~repositories'[idx].need_update
            /\ repositories'[idx].local_exists]_vars

\* a finished pass over two repositories: the first synced, the second
\* failed and still carries the flags it came with
C19_Witness ==
    /\ pc = "finished" /\ Len(repositories) = 2
    /\ ~repositories[1].need_update /\ repositories[1].local_exists
    /\ repositories[2].name \in DOMAIN result.failed_repos
    /\ repositories[2].ssh_url # NoUrl
    /\ repositories[2].need_update /\ ~repositories[2].local_exists

C21_NothingThrowsPastBoundary ==
    /\ pc # "raised"
    /\ (InCall /\ call.cause = "exception") => call.base <= max_retries
    /\ (pc = "fold" /\ call.cause = "exception" /\ call.via = "exhausted")
          => (~ret.success /\ ret.attempts = max_retries)

\* C22: the observers registered for an event are called by _emit in the
\* order of their registration, and every one of them is called whether or
\* not an earlier one raised; the pass goes on after an observer raised.
C22_ObserversInRegistrationOrder ==
    \A i \in 1..Len(invoked) :
        (i = 1 \/ invoked[i - 1].n # invoked[i].n) =>
            LET observers == callbacks[invoked[i].event]
                last == i + Len(observers) - 1
            IN /\ last <= Len(invoked)
               /\ \A j \in 1..Len(observers) :
                    /\ invoked[i + j - 1].n = invoked[i].n
                    /\ invoked[i + j - 1].event = invoked[i].event
                    /\ invoked[i + j - 1].observer = observers[j].id
               /\ last < Len(invoked) => invoked[last + 1].n # invoked[i].n

\* a pass over two repositories ran to its end although the first observer
\* of every event raised; the second observer saw sync_finished
C22_Witness ==
    /\ pc = "finished"
    /\ Len(invoked) >= 2
    /\ invoked[Len(invoked) - 1].observer = "faulty"
    /\ invoked[Len(invoked) - 1].raised
    /\ invoked[Len(invoked)].observer = "log"
    /\ invoked[Len(invoked)].event = "sync_finished"
    /\ invoked[Len(invoked)].n = invoked[Len(invoked) - 1].n
    /\ \E i \in 1..Len(invoked) : invoked[i].event = "repo_completed"

\* C23: a cancellation requested during sync_user_repositories is honoured
\* between repositories: the operation in flight runs to its end, and once
\* the loop is back at its head no further repository is started (none is
\* planned, attempted, skipped or recorded): the pass only finishes.
C23_CancelHonouredBetweenRepositories ==
    [][(cancel_requested /\ pc = "loop")
          => (idx' = idx /\ pc' \in {"loop", "finished"})]_vars

\* the events of the processing loop, and those that end a repository
LoopEvents ==
    {"repo_started", "repo_skipped", "repo_completed", "repo_repaired",
     "repo_failed", "operation_attempt", "auto_repair_triggered",
     "repair_started", "repair_fixed", "repair_recloning", "repair_success",
     "repair_failed"}

TerminalEvents == {"repo_skipped", "repo_completed", "repo_repaired", "repo_failed"}

\* C24: repositories are processed one at a time in input order: every
\* event of the processing loop is about the repository at the position the
\* loop is at, the events of one repository are consecutive, the next
\* repository is the next of the input and begins only after the terminal
\* event of the one before, and a step changes no local path but that of
\* the repository being processed.
C24_StrictInputOrder ==
    /\ [](\A i \in 1..Len(invoked) :
            invoked[i].event \in LoopEvents =>
              /\ invoked[i].k \in 1..Len(repositories)
              /\ invoked[i].k <= idx
              /\ invoked[i].args[1] = repositories[invoked[i].k].name
              /\ i < Len(invoked) =>
                   IF invoked[i + 1].event \in LoopEvents
                   THEN \/ invoked[i + 1].k = invoked[i].k
                        \/ /\ invoked[i].event \in TerminalEvents
                           /\ invoked[i + 1].k = invoked[i].k + 1
                   ELSE invoked[i + 1].event = "sync_finished")
    /\ [][\A n \in DOMAIN disk :
            disk'[n] # disk[n] => (InCall /\ n = repositories[idx].name)]_vars

\* both repositories of a finished pass were attempted, the first one with
\* a repair escalation, and each has its terminal event
C24_Witness ==
    /\ pc = "finished"
    /\ Len(repositories) = 2
    /\ repositories[1].name # repositories[2].name
    /\ \E a, b, c, d \in 1..Len(invoked) :
         /\ a < b /\ b < c /\ c < d
         /\ invoked[a].event = "auto_repair_triggered" /\ invoked[a].k = 1
         /\ invoked[b].event \in TerminalEvents /\ invoked[b].k = 1
         /\ invoked[c].event = "operation_attempt" /\ invoked[c].k = 2
         /\ invoked[d].event \in TerminalEvents /\ invoked[d].k = 2

\* the positions in the log of the health_check_completed calls
CompletedAt == {c \in 1..Len(invoked) : invoked[c].event = "health_check_completed"}

\* the positions in the log of the events of the processing loop
LoopAt == {i \in 1..Len(invoked) : invoked[i].event \in LoopEvents}

\* C25: with the health check enabled every repository is classified, and
\* health_checked for each of them and then health_check_completed are
\* emitted, before any repository is touched: before the first event of the
\* processing loop, before the planning and before any operation.
C25_HealthCheckUpFront ==
    health_check =>
      /\ (pc \in {"loop", "attempt", "escalate", "backoff", "fold"}
            \/ (pc = "raised" /\ LoopAt # {}))
           => /\ CompletedAt # {}
              /\ \A k \in 1..Len(repositories) :
                   repositories[k].name \in DOMAIN health_results
      /\ pc = "health" => procs \subseteq {repositories[k].name : k \in 1..(idx - 1)}
      /\ LoopAt # {} =>
           /\ CompletedAt # {}
           /\ \A c \in CompletedAt : \A i \in LoopAt : c < i
           /\ \A k \in 1..Len(repositories) :
                \E h \in 1..Len(invoked) :
                  /\ invoked[h].event = "health_checked"
                  /\ invoked[h].k = k
                  /\ \A c \in CompletedAt : h < c

\* the first repository is being attempted after both were classified and
\* the three kinds of health events were observed
C25_Witness ==
    /\ health_check /\ pc = "attempt" /\ idx = 1
    /\ Len(repositories) = 2
    /\ Len(invoked) >= 5
    /\ invoked[Len(invoked)].event = "repo_started"
    /\ \E c \in CompletedAt :
         \E h \in 1..c : invoked[h].event = "health_checked" /\ invoked[h].k = 2

\* the call of sync_user_repositories is over: it returned or it raised
PassEnded == pc \in {"finished", "raised"}

\* the positions in the log of the sync_finished calls
FinishedAt == {i \in 1..Len(invoked) : invoked[i].event = "sync_finished"}

\* C26: every call of sync_user_repositories emits sync_started first and
\* ends having emitted sync_finished exactly once, as its last event, with
\* the complete result (counters and maps final, end_time set), whatever
\* the operations gave and also when the bootstrap fails.
C26_FinishedOnceAndLast ==
    /\ Len(invoked) > 0 => invoked[1].event = "sync_started"
    /\ \A i \in FinishedAt :
         /\ PassEnded
         /\ invoked[i].n = invoked[Len(invoked)].n
         /\ invoked[i].args[1] = result
         /\ result.ended
    /\ PassEnded =>
         /\ FinishedAt # {}
         /\ result.ended
         /\ result.total = Len(repositories)

\* line 125 (and 164): the local path of a repository, relative to repos_path
RepoPath(repo) == repo.name

\* lines 111, 119, 134, 145, 154: the key of a repository in health_results
\* and in the maps of the result
RepoKey(repo) == repo.name

\* what the result records under a key
OutcomeOf(res, key) ==
    [failed |-> IF key \in DOMAIN res.failed_repos THEN res.failed_repos[key] ELSE "",
     repaired |-> IF key \in DOMAIN res.repaired_repos
                  THEN res.repaired_repos[key] ELSE "",
     skipped |-> IF key \in DOMAIN res.skipped_repos
                 THEN res.skipped_repos[key] ELSE ""]

\* C27: within one pass no two repositories of the input share a local path
\* or a key of the outcome and health maps: a step made for one repository
\* changes neither the local copy nor the recorded outcome or health of any
\* other repository of the list.
C27_PathsNotShared ==
    [][(pass' = pass /\ idx \in DOMAIN repositories) =>
         \A k \in DOMAIN repositories :
            k # idx =>
              /\ disk'[RepoPath(repositories[k])] = disk[RepoPath(repositories[k])]
              /\ OutcomeOf(result', RepoKey(repositories[k]))
                   = OutcomeOf(result, RepoKey(repositories[k]))
              /\ RepoKey(repositories[k]) \in DOMAIN health_results =>
                   health_results'[RepoKey(repositories[k])]
                     = health_results[RepoKey(repositories[k])]]_vars


(***************************************************************************)
(* What _execute_with_retries returns, and its sleeps.                     *)
(***************************************************************************)
\* C28: on success _execute_with_retries returns the attempts consumed so
\* far: the number k of the base attempt when the planned operation
\* succeeded on it, with the operation's message, and k + 1 when base
\* attempt k failed and its repair escalation succeeded.
C28_AttemptsOnSuccess ==
    (pc = "fold" /\ ret.success) =>
        /\ call.base = attempt
        /\ call.via \in {"planned", "escalation"}
        /\ call.via = "planned" =>
             /\ ret.attempts = call.base
             /\ ret.message \in {"Cloned successfully", "Updated successfully",
                                 "Fixed: Fixed with fetch and reset",
                                 "Re-cloned successfully"}
        /\ call.via = "escalation" =>
             /\ ret.attempts = call.base + 1
             /\ call.escalations >= 1
             /\ ret.message \in {"Auto-repaired: Fixed: Fixed with fetch and reset",
                                 "Auto-repaired: Re-cloned successfully"}

\* the second base attempt failed and its escalation succeeded: 3 is returned
C28_Witness ==
    /\ pc = "fold" /\ ret.success
    /\ call.via = "escalation" /\ call.base = 2 /\ ret.attempts = 3
    /\ max_retries = 3

\* C29: when every attempt and every escalation failed, the executor
\* returns failure with the last error in its message and max_retries as
\* the attempt count, and the pass records that message and count under
\* failed_repos and counts the repository as failed.
C29_ExhaustedCarriesLastError ==
    [][(pc = "fold" /\ ~ret.success) =>
         /\ call.via = "exhausted"
         /\ call.base = max_retries
         /\ ret.attempts = max_retries
         /\ ret.message = "Failed after " \o ToString(max_retries)
                             \o " attempts: " \o last_error
         /\ (max_retries > 0 => last_error # "")
         /\ result'.failed = result.failed + 1
         /\ result'.failed_repos[Cur] =
               ret.message \o " (attempts: " \o ToString(max_retries) \o ")"
         /\ result'.successful = result.successful
         /\ result'.repaired = result.repaired]_vars

\* a repository failed after three attempts, the last of which raised, and
\* is recorded with that reason
C29_Witness ==
    /\ pc = "loop" /\ idx = 2 /\ max_retries = 3
    /\ "foo" \in DOMAIN result.failed_repos
    /\ result.failed_repos["foo"] =
         "Failed after 3 attempts: Exception: [Errno 13] Permission denied (attempts: 3)"

\* C30: after every failed attempt that is not the final one, whether it
\* failed by result or by exception, the executor sleeps min(2^attempt, 10)
\* seconds (2, 4, 8, 10, ...); it does not sleep after the final attempt
\* or after a success.
C30_BackoffSchedule ==
    [][(InCall /\ pass' = pass) =>
         /\ attempt' = attempt + 1 =>
              wait_time' = IF attempt >= max_retries THEN wait_time
                           ELSE IF attempt = 1 THEN 2
                           ELSE IF attempt = 2 THEN 4
                           ELSE IF attempt = 3 THEN 8
                           ELSE 10
         /\ (attempt' = attempt /\ pc' # "loop") => wait_time' = wait_time]_vars


(***************************************************************************)
(* Properties of an observed pass over one repository (SingleSpec).        *)
(***************************************************************************)
\* the operation_attempt events of repository k, in the order of the log
AttemptsOf(k) ==
    SelectSeq(invoked, LAMBDA e : e.event = "operation_attempt" /\ e.k = k)

\* the positions in the log of the auto_repair_triggered events of repository k
TriggersAt(k) ==
    {i \in 1..Len(invoked) :
        invoked[i].event = "auto_repair_triggered" /\ invoked[i].k = k}

\* C31: every attempt of _execute_with_retries is announced before control
\* returns to the caller: each base attempt has its operation_attempt(name,
\* operation, n) event with n = 1, 2, ... in increasing order, each repair
\* escalation has its auto_repair_triggered(name) event, emitted after the
\* announcement of the attempt that failed and before the repair starts, and
\* all of them precede the event that ends the repository.
C31_AttemptsAnnounced ==
    /\ InCall =>
         /\ Len(AttemptsOf(idx)) = call.base
         /\ Cardinality(TriggersAt(idx)) = call.escalations
         /\ \A j \in 1..Len(AttemptsOf(idx)) :
              AttemptsOf(idx)[j].args = <<Cur, operation_type, j>>
    /\ \A k \in DOMAIN repositories :
         /\ \A j \in 1..Len(AttemptsOf(k)) :
              /\ AttemptsOf(k)[j].args[1] = repositories[k].name
              /\ AttemptsOf(k)[j].args[3] = j
         /\ \A i \in TriggersAt(k) :
              /\ invoked[i].args = <<repositories[k].name>>
              /\ i > 1
              /\ invoked[i - 1].event = "operation_attempt" /\ invoked[i - 1].k = k
              /\ i < Len(invoked)
              /\ invoked[i + 1].event = "repair_started" /\ invoked[i + 1].k = k
    /\ \A e \in 1..Len(invoked) :
         invoked[e].event \in TerminalEvents =>
            \A i \in 1..Len(invoked) :
               (/\ invoked[i].event \in {"operation_attempt", "auto_repair_triggered"}
                /\ invoked[i].k = invoked[e].k) => i < e

\* three base attempts were announced, each followed by an escalation, and
\* the third escalation succeeded
C31_Witness ==
    /\ pc = "fold" /\ ret.success /\ call.via = "escalation"
    /\ Len(AttemptsOf(idx)) = 3
    /\ Cardinality(TriggersAt(idx)) = 3
    /\ AttemptsOf(idx)[3].args[3] = 3


(***************************************************************************)
(* Properties of the direct calls (UnitSpec), continued.                   *)
(***************************************************************************)
\* C32: needs_update compares the two timestamps as instants (both
\* normalized to UTC): for a last-pushed timestamp written with a UTC offset
\* its decision is the one it takes for the same instant written with "Z".
C32_OffsetNormalized ==
    (unit.fn = "needs_update" /\ IsTimestamp(UnitRepo.pushed_at)) =>
        \E ls \in LsRemoteOutcomes :
            /\ unit.queried => ls = unit.ls
            /\ unit.result =
                 NeedsUpdate(UnitDisk, PushedAt(Instant(UnitRepo.pushed_at)), ls)


\* C33: when a clone or pull command runs into its timeout the executor
\* signals the whole process group of the child: SIGTERM first, SIGKILL only
\* after it and only if the child had not exited within the grace window;
\* the result has timed_out = true and success = false.  No signal is sent
\* in any other case.
C33_TimeoutTerminatesGroup ==
    unit.fn \in {"clone", "pull"} =>
        /\ unit.result.timed_out <=> unit.rc = "timeout"
        /\ unit.result.timed_out =>
             /\ ~unit.result.success
             /\ Len(unit.signals) >= 1
             /\ unit.signals[1] = [signal |-> "SIGTERM", to |-> "group"]
             /\ Len(unit.signals) <= 2
             /\ Len(unit.signals) = 2 <=> unit.term = "hangs"
             /\ Len(unit.signals) = 2 =>
                  unit.signals[2] = [signal |-> "SIGKILL", to |-> "group"]
        /\ ~unit.result.timed_out => unit.signals = <<>>

\* a pull that ran into the timeout and did not exit after SIGTERM
C33_Witness ==
    /\ unit.fn = "pull"
    /\ unit.result.timed_out /\ ~unit.result.success
    /\ unit.signals = <<[signal |-> "SIGTERM", to |-> "group"],
                        [signal |-> "SIGKILL", to |-> "group"]>>


\* the recommendations that go with the status as a whole
StatusLevel ==
    {"Partially broken - may need repair", "Broken - needs re-cloning"}

\* the probes of the direct call that did not pass
FailedProbes == {k \in DOMAIN unit.runs : unit.runs[k] # "ok"}

\* C34: every probe of _check_repository_health that fails appends a
\* recommendation of its own: the recommendations that are not about the
\* status as a whole are as many as the failed probes.
C34_RecommendationPerFailedProbe ==
    (unit.fn = "health" /\ unit.result.is_git_repo) =>
        Len(SelectSeq(unit.result.recommendations, LAMBDA r : r \notin StatusLevel))
            = Cardinality(FailedProbes)


\* the probes of the direct call that passed
PassedProbes == {k \in DOMAIN unit.runs : unit.runs[k] = "ok"}

\* C35: the four probes run independently: each of them is executed and
\* recorded whatever the earlier ones gave; a probe that throws or times out
\* is recorded as failed, adds nothing to the pass count, appends the note
\* "<probe> check failed" and does not stop the probes after it; the status
\* is determined by the number of passing probes alone.
C35_ProbesIndependent ==
    (unit.fn = "health" /\ unit.result.is_git_repo) =>
        /\ Len(unit.result.health_checks) = NumProbes
        /\ \A k \in 1..NumProbes :
             /\ unit.result.health_checks[k].name = ProbeNames[k]
             /\ unit.result.health_checks[k].success <=> k \in PassedProbes
             /\ unit.runs[k] = "raises" =>
                  \E r \in DOMAIN unit.result.recommendations :
                     unit.result.recommendations[r] = ProbeNames[k] \o " check failed"
        /\ unit.result.status =
             (IF Cardinality(PassedProbes) = 4 THEN "healthy"
              ELSE IF Cardinality(PassedProbes) = 3 THEN "partially_broken"
              ELSE "broken")
        /\ unit.result.needs_repair <=> Cardinality(PassedProbes) < 4

\* the first probe timed out on an otherwise intact copy: the other three
\* ran and passed, and the copy is partially broken
C35_Witness ==
    /\ unit.fn = "health"
    /\ unit.runs = <<"raises", "ok", "ok", "ok">>
    /\ unit.result.status = "partially_broken"
    /\ unit.result.health_checks[4].success
    /\ unit.result.recommendations[1] = "git_dir check failed"


(***************************************************************************)
(* The result of a pass: counters and maps.                                *)
(***************************************************************************)
\* the repositories the result counts under one of its four outcomes
Counted(res) == res.successful + res.failed + res.skipped + res.repaired

\* C36: when sync_user_repositories returns, the four counters partition the
\* input: successful + failed + skipped + repaired = total = the number of
\* repositories given, whatever the operations gave, also when the
\* bootstrap failed and for repositories without clone address; while the
\* loop runs they count the repositories it has dealt with.
C36_CountersPartitionInput ==
    /\ pc = "finished" =>
         /\ Counted(result) = result.total
         /\ result.total = Len(repositories)
    /\ pc = "loop" => Counted(result) = idx - 1
    /\ InCall => Counted(result) = idx - 1

\* a pass over two repositories that returned after the first had no clone
\* address and the second was repaired
C36_Witness ==
    /\ pc = "finished" /\ Len(repositories) = 2
    /\ result.failed = 1 /\ result.repaired = 1
    /\ result.failed_repos[repositories[1].name] = "No SSH URL"
    /\ result.total = 2

\* C37: when a pass over repositories with distinct names returns, the maps
\* of the result agree with its counters: failed, repaired and skipped are
\* the numbers of entries of failed_repos, repaired_repos and skipped_repos,
\* and every repository counted as failed has a reason in failed_repos,
\* also when the pass failed at the bootstrap.
C37_MapsAgreeWithCounters ==
    (/\ pc = "finished"
     /\ \A j, k \in DOMAIN repositories :
          j # k => repositories[j].name # repositories[k].name)
        => /\ result.failed = Cardinality(DOMAIN result.failed_repos)
           /\ result.repaired = Cardinality(DOMAIN result.repaired_repos)
           /\ result.skipped = Cardinality(DOMAIN result.skipped_repos)
           /\ \A n \in DOMAIN result.failed_repos : result.failed_repos[n] # ""


C39_NullTimestampSkips ==
    [][(/\ pc = "loop" /\ idx <= Len(repositories)
        /\ operation = "sync"
        /\ repositories[idx].ssh_url # NoUrl
        /\ repositories[idx].pushed_at = None
        /\ FullyHealthy(disk[Cur])
        /\ (health_check => health_results[Cur].status = "healthy")
        /\ pass' = pass /\ pc' # "raised")
       => /\ pc' = "loop" /\ idx' = idx + 1
          /\ operation_type' = "none"
          /\ ls_remote' = "none"
          /\ result'.skipped = result.skipped + 1
          /\ result'.skipped_repos[Cur] = "Already up to date"
          /\ result'.successful = result.successful
          /\ result'.failed = result.failed
          /\ result'.repaired = result.repaired
          /\ disk' = disk
          /\ repositories' = repositories]_vars

\* a copy one commit behind the remote was skipped for lack of a timestamp
C39_Witness ==
    /\ pc = "loop" /\ idx = 2 /\ operation = "sync"
    /\ repositories[1].pushed_at = None
    /\ disk[repositories[1].name] = StaleCopy
    /\ repositories[1].name \in DOMAIN result.skipped_repos
    /\ result.skipped_repos[repositories[1].name] = "Already up to date"
    /\ result.skipped = 1


\* the events _execute_with_retries and _execute_repair emit
CallEvents ==
    {"operation_attempt", "auto_repair_triggered", "repair_started",
     "repair_fixed", "repair_recloning", "repair_success", "repair_failed"}

\* C40: in a service constructed with max_retries <= 0 the executor makes
\* no attempt: no operation_attempt event (nor any event of a repair) is
\* emitted, no operation or repair is invoked and no local path changes; it
\* returns failure with max_retries as the attempt count and an empty last
\* error, so every repository with a clone address that is not skipped is
\* recorded as failed.
C40_NoRetriesNoAttempt ==
    /\ [](max_retries <= 0 =>
            /\ \A i \in 1..Len(invoked) : invoked[i].event \notin CallEvents
            /\ call.base = 0 /\ call.escalations = 0
            /\ pc \notin {"escalate", "backoff"}
            /\ pc = "fold" =>
                 /\ ~ret.success
                 /\ ret.attempts = max_retries
                 /\ last_error = ""
                 /\ ret.message =
                      "Failed after " \o ToString(max_retries) \o " attempts: "
            /\ result.successful = 0 /\ result.repaired = 0
            /\ \A k \in DOMAIN repositories :
                 (Processed(k) /\ idx > 1) =>
                    \/ repositories[k].name \in DOMAIN result.skipped_repos
                    \/ repositories[k].name \in DOMAIN result.failed_repos)
    /\ [][max_retries <= 0 => disk' = disk]_vars

\* a service constructed with max_retries = -1 recorded a repository it had
\* planned to clone as failed after -1 attempts
C40_Witness ==
    /\ max_retries = 0 - 1
    /\ pc = "finished" /\ idx = 2
    /\ operation = "clone"
    /\ repositories[1].name \in DOMAIN result.failed_repos
    /\ result.failed_repos[repositories[1].name] =
         "Failed after -1 attempts:  (attempts: -1)"
    /\ \E i \in 1..Len(invoked) : invoked[i].event = "repo_failed"

=========================================================================
